---------------------------- MODULE Spec2Model ----------------------------
(***************************************************************************)
(* Model of the LogViz event-graph front end (LogViz/static/js): the edge  *)
(* aggregator, the windowing step of DataFilters.applyFilters, the search  *)
(* query engine, and the application controller that ties window loads,    *)
(* searches and renders together.                                          *)
(*                                                                         *)
(* Strings that the code concatenates or scans (node ids, operations,      *)
(* query tokens) are sequences of one-character strings, so that the       *)
(* template-string key `${src}-${dst}-${op}` and String.includes are       *)
(* computed rather than assumed.                                           *)
(***************************************************************************)
EXTENDS Integers, Sequences, FiniteSets, TLC

(***************************************************************************)
(* Bounds of the model.                                                    *)
(***************************************************************************)
MaxEdges == 3
MaxEntry == 3

\* JavaScript `undefined` for a numeric field (entry_index).
Undefined == -1

\* Number.MAX_SAFE_INTEGER, the sort key of an edge without entry_index.  The
\* model uses the largest integer of the checker; like 2^53 - 1 it exceeds
\* every entry index.
MAX_SAFE_INTEGER == 2147483647

(***************************************************************************)
(* Input domains.                                                          *)
(***************************************************************************)
Dash == <<"-">>

\* Node identifiers (strings).  "a-a" is an identifier containing the
\* character the aggregator uses as key separator.
NodeA == <<"a">>
NodeAA == <<"a", "-", "a">>
NodeIds == { NodeA, NodeAA }

EntryValues == (1..MaxEntry) \cup {Undefined}

\* The raw edge of position i: its id is "e<i>".
EdgeId(i) == <<"e", ToString(i)>>

RawEdge(i, s, d, o, n) ==
    [id |-> EdgeId(i), src |-> s, dst |-> d, operation |-> o, entry_index |-> n]

\* The (src, dst, operation) triples an edge of the model may have.  The
\* first two differ in src and dst; the third differs from the first in the
\* operation only.
Triples == { <<NodeA, NodeAA, <<"x">>>>, <<NodeAA, NodeA, <<"x">>>>,
             <<NodeA, NodeAA, <<"y">>>> }

\* What one position of the input may hold: a triple and an entry index.
EdgeShapes == Triples \X EntryValues

(***************************************************************************)
(* Small helpers over sequences.                                           *)
(***************************************************************************)
Range(s) == { s[i] : i \in 1..Len(s) }

RECURSIVE SeqFilter(_, _)
SeqFilter(s, keep) ==
    IF s = <<>> THEN <<>>
    ELSE IF Head(s) \in keep THEN <<Head(s)>> \o SeqFilter(Tail(s), keep)
         ELSE SeqFilter(Tail(s), keep)

RECURSIVE SeqMin(_)
SeqMin(s) ==
    IF Len(s) = 1 THEN s[1]
    ELSE LET m == SeqMin(Tail(s)) IN IF s[1] < m THEN s[1] ELSE m

RECURSIVE SumOf(_, _)
SumOf(s, i) == IF i > Len(s) THEN 0 ELSE s[i] + SumOf(s, i + 1)

SetMin(S) == CHOOSE m \in S : \A x \in S : m <= x
SetMax(S) == CHOOSE m \in S : \A x \in S : m >= x


(***************************************************************************)
(* Edge aggregation (modules/edge-aggregator.js).                          *)
(***************************************************************************)

\* The Map key of an edge: the template string `${src}-${dst}-${op}`.
EdgeKey(e) == e.src \o Dash \o e.dst \o Dash \o e.operation

\* The Map entry created for the first edge of a key.
NewCombined(e) ==
    [id             |-> EdgeKey(e),
     src            |-> e.src,
     dst            |-> e.dst,
     operation      |-> e.operation,
     entry_index    |-> e.entry_index,
     combined_count |-> 1,
     original_edges |-> <<e>>,
     entry_indices  |-> IF e.entry_index # Undefined THEN <<e.entry_index>> ELSE <<>>,
     is_combined    |-> FALSE]

\* Absorb with the count increment forgotten.
AbsorbNoCount(c, e) ==
    [c EXCEPT !.original_edges = Append(@, e),
              !.entry_indices  = IF e.entry_index # Undefined
                                 THEN Append(@, e.entry_index) ELSE @]

\* An existing Map entry absorbing one more edge.
Absorb(c, e) ==
    [c EXCEPT !.combined_count = @ + 1,
              !.original_edges = Append(@, e),
              !.entry_indices  = IF e.entry_index # Undefined
                                 THEN Append(@, e.entry_index) ELSE @]

\* Position of the Map entry with id k in the insertion-ordered Map m, or 0.
MapIndex(m, k) ==
    IF \E j \in 1..Len(m) : m[j].id = k
    THEN CHOOSE j \in 1..Len(m) : m[j].id = k
    ELSE 0

\* edges.forEach(...): the Map after the edges from position i on are added.
RECURSIVE CombineFold(_, _, _)
CombineFold(edges, i, m) ==
    IF i > Len(edges) THEN m
    ELSE LET e == edges[i]
             j == MapIndex(m, EdgeKey(e))
         IN  IF j # 0
             THEN CombineFold(edges, i + 1, [m EXCEPT ![j] = Absorb(m[j], e)])
             ELSE CombineFold(edges, i + 1, Append(m, NewCombined(e)))

\* The .map(...) step without the minimum: the first edge's index is kept.
FinalizeKeepFirst(c) ==
    IF c.combined_count > 1 THEN [c EXCEPT !.is_combined = TRUE] ELSE c

\* The .map(...) step: flag merged entries and take the least entry index.
Finalize(c) ==
    IF c.combined_count > 1
    THEN [c EXCEPT !.is_combined = TRUE,
                   !.entry_index = IF Len(c.entry_indices) > 0
                                   THEN SeqMin(c.entry_indices) ELSE @]
    ELSE c

\* The comparator's key: entry_index ?? Number.MAX_SAFE_INTEGER.
SortKey(c) == IF c.entry_index = Undefined THEN MAX_SAFE_INTEGER ELSE c.entry_index

\* Array.prototype.sort is stable: insert x after every element whose key
\* is not greater.
RECURSIVE InsertSorted(_, _)
InsertSorted(s, x) ==
    IF s = <<>> THEN <<x>>
    ELSE IF SortKey(Head(s)) <= SortKey(x)
         THEN <<Head(s)>> \o InsertSorted(Tail(s), x)
         ELSE <<x>> \o s

\* No sort: the entries stay in the insertion order of the Map.
KeepMapOrder(s, i, acc) == s

RECURSIVE SortByEntry(_, _, _)
SortByEntry(s, i, acc) ==
    IF i > Len(s) THEN acc ELSE SortByEntry(s, i + 1, InsertSorted(acc, s[i]))

combineEdgesByOperation(edges) ==
    LET m == CombineFold(edges, 1, <<>>)
        f == [j \in 1..Len(m) |-> Finalize(m[j])]
    IN  SortByEntry(f, 1, <<>>)

(***************************************************************************)
(* Consecutive combination.  filters.js imports                            *)
(* combineConsecutiveEdgesByOperation from the aggregator module, whose    *)
(* text does not hold it; it is described in section 4.2 of the design:    *)
(* chronological order by (entry_index, array position), maximal runs of   *)
(* adjacent edges with the same key, merging within a run only.            *)
(***************************************************************************)

\* The number of runs with the key of c among the runs m.
SegmentsOfKey(m, c) == Cardinality({ j \in 1..Len(m) : m[j].id = c.id })

\* The runs after the edges from position i on are added: an edge extends the
\* last run when it has that run's key and opens a new run otherwise.
RECURSIVE RunFold(_, _, _)
RunFold(edges, i, m) ==
    IF i > Len(edges) THEN m
    ELSE LET e == edges[i]
         IN  IF m # <<>> /\ m[Len(m)].id = EdgeKey(e)
             THEN RunFold(edges, i + 1, [m EXCEPT ![Len(m)] = Absorb(m[Len(m)], e)])
             ELSE RunFold(edges, i + 1, Append(m, NewCombined(e)))

\* The record of a run: the merged edge with its segment fields.
RunEdge(m, j) ==
    LET c == Finalize(m[j])
    IN  [id             |-> c.id,
         src            |-> c.src,
         dst            |-> c.dst,
         operation      |-> c.operation,
         entry_index    |-> c.entry_index,
         combined_count |-> c.combined_count,
         original_edges |-> c.original_edges,
         entry_indices  |-> c.entry_indices,
         is_combined    |-> c.is_combined,
         is_consecutive_combined    |-> c.combined_count > 1,
         consecutive_segment_index  |-> SegmentsOfKey(SubSeq(m, 1, j), c),
         consecutive_segment_length |-> c.combined_count]

\* Every group of a key merged wherever its edges are: global combination
\* under the name of the consecutive one.
combineIgnoringAdjacency(edges) == combineEdgesByOperation(edges)

combineConsecutiveEdgesByOperation(edges) ==
    LET m == RunFold(SortByEntry(edges, 1, <<>>), 1, <<>>)
    IN  [j \in 1..Len(m) |-> RunEdge(m, j)]

(***************************************************************************)
(* Strings (JavaScript String methods over sequences of characters).       *)
(***************************************************************************)
Uppers == <<"A","B","C","D","E","F","G","H","I","J","K","L","M",
            "N","O","P","Q","R","S","T","U","V","W","X","Y","Z">>
Lowers == <<"a","b","c","d","e","f","g","h","i","j","k","l","m",
            "n","o","p","q","r","s","t","u","v","w","x","y","z">>

LowerChar(c) ==
    IF \E i \in 1..26 : Uppers[i] = c
    THEN Lowers[CHOOSE i \in 1..26 : Uppers[i] = c]
    ELSE c

\* String.prototype.toLowerCase
toLowerCase(s) == [i \in 1..Len(s) |-> LowerChar(s[i])]

\* String.prototype.startsWith
startsWith(s, p) == Len(p) <= Len(s) /\ SubSeq(s, 1, Len(p)) = p

\* String.prototype.endsWith
endsWith(s, p) == Len(p) <= Len(s) /\ SubSeq(s, Len(s) - Len(p) + 1, Len(s)) = p

\* String.prototype.includes
includes(s, p) ==
    \E i \in 1..(Len(s) - Len(p) + 1) : SubSeq(s, i, i + Len(p) - 1) = p

\* String.prototype.substring(n) for 0 <= n
substring(s, n) == SubSeq(s, n + 1, Len(s))

\* String.prototype.replace(p, '') : the first occurrence of p is removed.
removeFirst(s, p) ==
    IF includes(s, p)
    THEN LET i == CHOOSE k \in 1..(Len(s) - Len(p) + 1) :
                     /\ SubSeq(s, k, k + Len(p) - 1) = p
                     /\ \A h \in 1..(k - 1) : SubSeq(s, h, h + Len(p) - 1) # p
         IN  SubSeq(s, 1, i - 1) \o SubSeq(s, i + Len(p), Len(s))
    ELSE s

Space == " "

\* String.prototype.split(/\s+/): cur is the term being read, sep tells that
\* the previous character was a separator.  A leading or trailing separator
\* yields an empty first or last term, as in JavaScript.
RECURSIVE SplitFrom(_, _, _, _)
SplitFrom(s, i, cur, sep) ==
    IF i > Len(s) THEN <<cur>>
    ELSE IF s[i] = Space
         THEN IF sep THEN SplitFrom(s, i + 1, cur, TRUE)
              ELSE <<cur>> \o SplitFrom(s, i + 1, <<>>, TRUE)
         ELSE SplitFrom(s, i + 1, Append(cur, s[i]), FALSE)

split(s) == SplitFrom(s, 1, <<>>, FALSE)

\* Array.prototype.join(' ')
RECURSIVE join(_)
join(parts) ==
    IF parts = <<>> THEN <<>>
    ELSE IF Len(parts) = 1 THEN parts[1]
         ELSE parts[1] \o <<Space>> \o join(Tail(parts))

\* The decimal digits of a natural number, as a string.
RECURSIVE Digits(_)
Digits(n) ==
    IF n < 10 THEN <<ToString(n)>> ELSE Digits(n \div 10) \o <<ToString(n % 10)>>

(***************************************************************************)
(* Windowing and filtering (modules/filters.js).                           *)
(***************************************************************************)

ProcessT  == <<"P","r","o","c","e","s","s">>
FileT     == <<"F","i","l","e">>
RegistryT == <<"R","e","g","i","s","t","r","y">>
NetworkT  == <<"N","e","t","w","o","r","k">>

\* DataFilters.normalizeNodeType
normalizeNodeType(t) ==
    IF t = <<>> THEN <<>>
    ELSE IF startsWith(toLowerCase(t), <<"p","r","o","c">>) THEN ProcessT
    ELSE IF startsWith(toLowerCase(t), <<"f","i","l","e">>) THEN FileT
    ELSE IF startsWith(toLowerCase(t), <<"r","e","g">>) THEN RegistryT
    ELSE IF startsWith(toLowerCase(t), <<"n","e","t">>) THEN NetworkT
    ELSE t

\* WindowEdges with the upper bound of the range test dropped.
WindowEdgesNoUpperBound(edges, searchEntryIndices, startEntry, endEntry) ==
    IF searchEntryIndices # {}
    THEN SeqFilter(edges, { e \in Range(edges) : e.entry_index \in searchEntryIndices })
    ELSE SeqFilter(edges, { e \in Range(edges) :
                              \/ e.entry_index = Undefined
                              \/ e.entry_index >= startEntry })

\* WindowEdges that applies the range test even when search indices are given.
WindowEdgesRangeOnly(edges, searchEntryIndices, startEntry, endEntry) ==
    SeqFilter(edges, { e \in Range(edges) :
                         \/ e.entry_index = Undefined
                         \/ (e.entry_index >= startEntry /\ e.entry_index <= endEntry) })

\* The windowing step of applyFilters.  searchEntryIndices is the set of the
\* array's elements; null and the empty array take the same branch.
WindowEdges(edges, searchEntryIndices, startEntry, endEntry) ==
    IF searchEntryIndices # {}
    THEN SeqFilter(edges, { e \in Range(edges) : e.entry_index \in searchEntryIndices })
    ELSE SeqFilter(edges, { e \in Range(edges) :
                              \/ e.entry_index = Undefined
                              \/ (e.entry_index >= startEntry /\ e.entry_index <= endEntry) })

\* entryRange as applyFilters reports it.
EntryRange(searchEntryIndices, startEntry, endEntry) ==
    IF searchEntryIndices # {}
    THEN <<SetMin(searchEntryIndices), SetMax(searchEntryIndices)>>
    ELSE <<startEntry, endEntry>>

\* The node filter of applyFilters: involved in a kept edge and of a shown type.
FilterNodes(nodes, filteredEdges, nodeTypeFilters) ==
    LET involved == { e.src : e \in Range(filteredEdges) } \cup
                    { e.dst : e \in Range(filteredEdges) }
    IN  SeqFilter(nodes, { n \in Range(nodes) :
                             /\ n.id \in involved
                             /\ IF normalizeNodeType(n.type) \in DOMAIN nodeTypeFilters
                                THEN nodeTypeFilters[normalizeNodeType(n.type)]
                                ELSE TRUE })

\* DataFilters.applyFilters(data, searchEntryIndices) with the DOM values it
\* reads passed as ui = [start, end, combine_edges, combine_consecutive,
\* node_types].
applyFilters(data, searchEntryIndices, ui) ==
    LET windowed == WindowEdges(data.edges, searchEntryIndices, ui.start, ui.end)
        filteredEdges == IF ui.combine_consecutive
                         THEN combineConsecutiveEdgesByOperation(windowed)
                         ELSE IF ui.combine_edges
                         THEN combineEdgesByOperation(windowed)
                         ELSE windowed
    IN  [nodes |-> FilterNodes(data.nodes, filteredEdges, ui.node_types),
         edges |-> filteredEdges,
         total_entries |-> data.total_entries,
         filters_applied |->
            [entry_range   |-> EntryRange(searchEntryIndices, ui.start, ui.end),
             search_active |-> searchEntryIndices # {},
             combine_edges |-> ui.combine_edges,
             node_types    |-> ui.node_types]]

(***************************************************************************)
(* Search utilities (search-utils part of modules/edge-aggregator.js).     *)
(***************************************************************************)

\* The type tags of index entries.
NodeT == <<"n","o","d","e">>
EdgeT == <<"e","d","g","e">>

\* A pattern slot of parseSearchQuery: null, or a string.
Null == [isNull |-> TRUE, s |-> <<>>]
Str(s) == [isNull |-> FALSE, s |-> s]

\* JavaScript truthiness of a pattern slot: null and '' are falsy.
Truthy(p) == ~p.isNull /\ p.s # <<>>

OperationPrefixes ==
    { <<"r","e","g">>, <<"f","i","l","e">>, <<"t","c","p">>, <<"u","d","p">>,
      <<"p","r","o","c","e","s","s">> }

OperationSuffixes ==
    { <<"r","e","a","d">>, <<"w","r","i","t","e">>, <<"q","u","e","r","y">>,
      <<"s","e","t">>, <<"o","p","e","n">>, <<"c","l","o","s","e">>,
      <<"c","r","e","a","t","e">>, <<"d","e","l","e","t","e">>,
      <<"s","e","n","d">>, <<"r","e","c","e","i","v","e">>,
      <<"c","o","n","n","e","c","t">>, <<"d","i","s","c","o","n","n","e","c","t">>,
      <<"s","t","a","r","t">> }

RegistryMarkers ==
    { <<"h","k","l","m">>, <<"h","k","c","u">>, <<"h","k","c","r">>,
      <<"h","k","u">>, <<"h","k","e","y","_">> }

OpPrefix == <<"o","p",":">>
ProcessPrefix == <<"p","r","o","c","e","s","s",":">>
PidPrefix == <<"p","i","d",":">>
TypePrefix == <<"t","y","p","e",":">>

\* The two case-insensitive regular expressions of the operation heuristic.
LooksLikeOperation(term) ==
    \/ \E p \in OperationPrefixes : startsWith(toLowerCase(term), p)
    \/ \E x \in OperationSuffixes : endsWith(toLowerCase(term), x)

EmptyPatterns ==
    [operation |-> Null, registry |-> Null, process |-> Null, type |-> Null,
     general |-> <<>>]

\* The body of the for loop of parseSearchQuery for one term.
ParseTerm(patterns, term) ==
    IF startsWith(term, OpPrefix)
    THEN [patterns EXCEPT !.operation = Str(substring(term, 3))]
    ELSE IF LooksLikeOperation(term)
    THEN [patterns EXCEPT !.operation = Str(term)]
    ELSE IF \E m \in RegistryMarkers : includes(term, m)
    THEN [patterns EXCEPT !.registry = Str(term)]
    ELSE IF startsWith(term, ProcessPrefix) \/ startsWith(term, PidPrefix)
    THEN [patterns EXCEPT !.process = Str(term)]
    ELSE IF startsWith(term, TypePrefix)
    THEN [patterns EXCEPT !.type = Str(substring(term, 5))]
    ELSE [patterns EXCEPT !.general = Append(@, term)]

RECURSIVE ParseTerms(_, _, _)
ParseTerms(terms, i, patterns) ==
    IF i > Len(terms) THEN patterns
    ELSE ParseTerms(terms, i + 1, ParseTerm(patterns, terms[i]))

parseSearchQuery(query) == ParseTerms(split(query), 1, EmptyPatterns)

\* matchesSearchPatterns(item, patterns)
matchesSearchPatterns(item, patterns) ==
    /\ Truthy(patterns.operation) =>
          /\ item.type = EdgeT
          /\ item.operation # <<>>
          /\ includes(item.operation, toLowerCase(patterns.operation.s))
    /\ Truthy(patterns.registry) => includes(item.text, patterns.registry.s)
    /\ Truthy(patterns.process) =>
          includes(item.text,
                   removeFirst(removeFirst(patterns.process.s, ProcessPrefix), PidPrefix))
    /\ Truthy(patterns.type) =>
          ~ ( /\ item.type # patterns.type.s
              /\ item.dataType # <<>>
              /\ toLowerCase(item.dataType) # patterns.type.s )
    /\ \A k \in 1..Len(patterns.general) : includes(item.text, patterns.general[k])

\* The index entry buildSearchIndex makes for a node [id, label, type].
NodeItem(node) ==
    [key       |-> <<"n","o","d","e","-">> \o node.id,
     type      |-> NodeT,
     id        |-> node.id,
     text      |-> toLowerCase(join(<<node.label, node.id, node.type, <<>>, <<>>>>)),
     operation |-> <<>>,
     dataType  |-> node.type,
     entry_index |-> Undefined]

\* The index entry buildSearchIndex makes for an edge; the model's edges have
\* no title and no line_id and their metadata is the empty object.
EdgeItem(edge) ==
    [key       |-> <<"e","d","g","e","-">> \o edge.id,
     type      |-> EdgeT,
     id        |-> edge.id,
     text      |-> toLowerCase(join(<<edge.operation, edge.src, edge.dst, <<>>,
                                      <<"{", "}">>, <<>>,
                                      IF edge.entry_index # Undefined /\ edge.entry_index # 0
                                      THEN <<"e","n","t","r","y",":">> \o Digits(edge.entry_index)
                                      ELSE <<>> >>)),
     operation |-> toLowerCase(edge.operation),
     dataType  |-> <<>>,
     entry_index |-> edge.entry_index]

\* buildSearchIndex(data): the Map's values in insertion order, nodes first.
buildSearchIndex(data) ==
    [i \in 1..Len(data.nodes) |-> NodeItem(data.nodes[i])] \o
    [i \in 1..Len(data.edges) |-> EdgeItem(data.edges[i])]

\* countTotalMatches(patterns, searchIndex)
countTotalMatches(patterns, index) ==
    Cardinality({ i \in 1..Len(index) : matchesSearchPatterns(index[i], patterns) })

(***************************************************************************)
(* The analytics core as a state machine: an edge list is assembled, then  *)
(* one core operation is applied to it.                                    *)
(***************************************************************************)
VARIABLES
    input,      \* the edge list handed to the core
    op,         \* the core operation applied ("none" while assembling)
    args,       \* the arguments of that operation
    kept,       \* the edges the windowing step kept (before aggregation)
    output      \* the operation's result

NoArgs == [start |-> 0, end |-> 0, search |-> {}, combine_edges |-> FALSE]
NoData == [nodes |-> <<>>, edges |-> <<>>]

\* The query engine: a dataset, the text of the search box, the matches.
VARIABLES
    qdata,      \* the dataset the index is built from
    query,      \* the query string
    qphase,     \* "typing" until the search has run, then "searched"
    results     \* the matching index entries, in index order

\* The application (app.js with its Search, GraphLoader and Visualization).
VARIABLES
    currentData,         \* GraphLoader.currentData: the loaded window, if any
    entryStart,          \* value of the entry-start input
    entryEnd,            \* value of the entry-end input
    disabled,            \* the disabled flag of each range control
    combineEdges,        \* the combine-edges checkbox
    searchMode,          \* Search.searchMode
    isSearchActive,      \* Search.isSearchActive
    currentSearchTerm,   \* Search.currentSearchTerm
    searchResults,       \* Search.searchResults
    searchFilterActive,  \* app.searchFilterActive
    searchEntryIndices,  \* app.searchEntryIndices
    network,             \* Visualization.network: the rendered items
    pendingLoads,        \* GraphLoader.loadGraph calls awaiting the backend
    pendingSearches,     \* performSearch calls awaiting the backend
    getCopies,           \* whether DataSet.get hands out a copy of the item
    lastLoad,            \* history: the window of the load started last
    lastLoadFailed,      \* history: whether that load has failed
    lastSearch,          \* history: the request started last (<<>> = clear)
    preSearch,           \* history: what was drawn when the search began
    preClear             \* history: what was drawn when clearSearch began

\* The result cap of a search: only the sizes of the collections matter.
VARIABLES
    capNodes,   \* number of nodes of the graph that match the query
    capEdges,   \* number of edges of the graph that match the query
    capPhase,   \* "idle", or how the search was answered
    capSize,    \* searchResults.size
    capInfo     \* the counts handed to updateSearchResultInfo

\* The registry labels of the Visualization.
VARIABLES
    regNodes,               \* data.nodes handed to createNetworkVisualization
    optimizeRegistryPaths,  \* the checkbox optimize-registry-paths
    registryPathMapping,    \* Visualization.registryPathMapping
    selectedNodes,          \* Visualization.selectedNodes
    netSelection,           \* the nodes selected in the network
    netLabels               \* the label each node of the network displays

\* The progressive processing of a collection by the Visualization.
VARIABLES
    progKind,        \* "none", "nodes" or "edges": which function runs
    progItems,       \* the collection handed to the function
    progIndex,       \* the loop variable i
    progResults,     \* the array results
    progPc,          \* "idle", "loop", "await" or "done"
    progSinceYield   \* history: batches processed since the call or the last yield

\* The search box and its debounce timer.
VARIABLES
    inputValue,      \* the value of the element search-input
    searchTimeout,   \* Search.searchTimeout: the handle of the last timer, 0 before
    pendingTimers,   \* the timers set and neither fired nor cleared
    timersSet,       \* how many timers were set (handles are 1, 2, ...)
    cleared          \* history: clearSearch ran and no query was entered since

\* Window navigation over a graph whose size the backend reports or not.
VARIABLES
    graphObj,        \* the graph object of the backend: [known, entry_count]
    totalEntries,    \* currentData.total_entries as loadGraph stored it
    lastNav          \* history: the last navigation step, its window before and after

coreVars == <<input, op, args, kept, output>>
queryVars == <<qdata, query, qphase, results>>
appVars == <<currentData, entryStart, entryEnd, disabled, combineEdges,
             searchMode, isSearchActive, currentSearchTerm, searchResults,
             searchFilterActive, searchEntryIndices, network,
             pendingLoads, pendingSearches, getCopies,
             lastLoad, lastLoadFailed, lastSearch, preSearch, preClear>>
capVars == <<capNodes, capEdges, capPhase, capSize, capInfo>>
regVars == <<regNodes, optimizeRegistryPaths, registryPathMapping,
             selectedNodes, netSelection, netLabels>>
progVars == <<progKind, progItems, progIndex, progResults, progPc, progSinceYield>>
debVars == <<inputValue, searchTimeout, pendingTimers, timersSet, cleared>>
navVars == <<graphObj, totalEntries, lastNav>>
extVars == <<progVars, debVars, navVars>>
auxVars == <<capVars, regVars, extVars>>
vars == <<coreVars, queryVars, appVars, auxVars>>

CoreIdle == input = <<>> /\ op = "none" /\ args = NoArgs /\ kept = <<>> /\ output = <<>>
QueryIdle == qdata = NoData /\ query = <<>> /\ qphase = "typing" /\ results = <<>>

\* The result info element before any search: hidden, no text.
NoInfo == [shown |-> FALSE, resultCount |-> 0, totalMatches |-> 0]
CapIdle ==
    /\ capNodes = 0
    /\ capEdges = 0
    /\ capPhase = "idle"
    /\ capSize = 0
    /\ capInfo = NoInfo
\* The Visualization before any rendering: no mapping, nothing selected.
RegIdle ==
    /\ regNodes = <<>>
    /\ optimizeRegistryPaths = TRUE
    /\ registryPathMapping = <<>>
    /\ selectedNodes = {}
    /\ netSelection = {}
    /\ netLabels = <<>>
\* No collection is being processed.
ProgIdle ==
    /\ progKind = "none"
    /\ progItems = <<>>
    /\ progIndex = 0
    /\ progResults = <<>>
    /\ progPc = "idle"
    /\ progSinceYield = 0
\* An empty search box, no timer ever set.
DebIdle ==
    /\ inputValue = <<>>
    /\ searchTimeout = 0
    /\ pendingTimers = {}
    /\ timersSet = 0
    /\ cleared = FALSE
\* No graph object fetched yet, no navigation step taken.
NoGraphObj == [known |-> FALSE, entry_count |-> 0]
NoNav == [kind |-> "none", start |-> 0, end |-> 0, total |-> 0,
          newStart |-> 0, newEnd |-> 0]
NavIdle ==
    /\ graphObj = NoGraphObj
    /\ totalEntries = 0
    /\ lastNav = NoNav
ExtIdle == ProgIdle /\ DebIdle /\ NavIdle
AuxIdle == CapIdle /\ RegIdle /\ ExtIdle

\* GraphLoader.currentData = null, and the data of a loaded window.
NotLoaded == [loaded |-> FALSE, from |-> 0, to |-> 0]
Loaded(from, to) == [loaded |-> TRUE, from |-> from, to |-> to]

\* The controls toggleRangeControls acts on; "preset-btn" stands for every
\* element of class preset-btn.
RangeControls == { "entry-start", "entry-end", "apply-range-btn",
                   "last-window-btn", "next-window-btn", "preset-btn" }

\* Visualization.network = null.
NoNetwork == [loaded |-> FALSE, nodes |-> <<>>, edges |-> <<>>]

\* The application with its page idle: what the analytics core and the
\* query engine leave untouched.
AppIdle ==
    /\ currentData = NotLoaded
    /\ entryStart = 1
    /\ entryEnd = 1
    /\ disabled = [c \in RangeControls |-> FALSE]
    /\ combineEdges = FALSE
    /\ searchMode = "highlight"
    /\ isSearchActive = FALSE
    /\ currentSearchTerm = <<>>
    /\ searchResults = {}
    /\ searchFilterActive = FALSE
    /\ searchEntryIndices = {}
    /\ network = NoNetwork
    /\ pendingLoads = {}
    /\ pendingSearches = {}
    /\ getCopies = TRUE
    /\ lastLoad = <<>>
    /\ lastLoadFailed = FALSE
    /\ lastSearch = <<>>
    /\ preSearch = <<>>
    /\ preClear = <<>>

\* The node collection of the model's datasets.
DataNodes == << [id |-> NodeA, label |-> NodeA, type |-> ProcessT],
               [id |-> NodeAA, label |-> NodeAA, type |-> FileT] >>

AllShown == [t \in {ProcessT, FileT, RegistryT, NetworkT} |-> TRUE]

CoreInit == CoreIdle /\ QueryIdle /\ AppIdle /\ AuxIdle

\* One more raw edge of the dataset.
AddEdge ==
    /\ op = "none"
    /\ Len(input) < MaxEdges
    /\ \E sh \in EdgeShapes :
          input' = Append(input, RawEdge(Len(input) + 1, sh[1][1], sh[1][2], sh[1][3], sh[2]))
    /\ UNCHANGED <<op, args, kept, output, queryVars, appVars, auxVars>>

\* combineEdgesByOperation(input)
Combine ==
    /\ op = "none"
    /\ op' = "combine"
    /\ output' = combineEdgesByOperation(input)
    /\ UNCHANGED <<input, args, kept, queryVars, appVars, auxVars>>

\* applyFilters(data, searchEntryIndices) with the range inputs at start, end.
ApplyFilters ==
    /\ op = "none"
    /\ \E search \in SUBSET (1..MaxEntry), combine \in BOOLEAN :
       \E start \in 1..MaxEntry,
          end \in IF search = {} THEN 1..MaxEntry ELSE {1, MaxEntry} :
          LET data == [nodes |-> DataNodes, edges |-> input, total_entries |-> MaxEntry]
              ui == [start |-> start, end |-> end, combine_edges |-> combine,
                     combine_consecutive |-> FALSE, node_types |-> AllShown]
          IN  /\ op' = "filter"
              /\ args' = [start |-> start, end |-> end, search |-> search,
                          combine_edges |-> combine]
              /\ kept' = WindowEdges(input, search, start, end)
              /\ output' = applyFilters(data, search, ui)
    /\ UNCHANGED <<input, queryVars, appVars, auxVars>>

CoreNext == AddEdge \/ Combine \/ ApplyFilters

SpecCore == CoreInit /\ [][CoreNext]_vars

\* C1: the combined counts of the output add up to the number of input edges
\* and every input edge is in the original_edges of exactly one output edge.
AggregationConservesEdges ==
    op = "combine" =>
        /\ SumOf([j \in 1..Len(output) |-> output[j].combined_count], 1) = Len(input)
        /\ \A i \in 1..Len(input) :
              Cardinality({ j \in 1..Len(output) :
                              input[i] \in Range(output[j].original_edges) }) = 1

\* A merge happened: three edges went in and fewer came out.
AggregationMerged ==
    /\ op = "combine"
    /\ Len(input) = 3
    /\ Len(output) = 2

(***************************************************************************)
(* The query engine as a state machine: a query is typed token by token    *)
(* and then matched against the index of a dataset.                        *)
(***************************************************************************)
MaxTokens == 2

\* Search.maxSearchResults
maxSearchResults == 500

\* The nodes of the query datasets: a process "p" and a file whose id and
\* label contain the text "re".
QueryNodes ==
    << [id |-> <<"p">>, label |-> <<"p">>, type |-> ProcessT],
       [id |-> <<"r","e">>, label |-> <<"R","e">>, type |-> FileT] >>

\* The edges a query dataset may have: operation "Re" between p and re,
\* operation "Wr" from re (its text contains "re", its operation does not),
\* and operation "RE" in upper case.
QueryEdges ==
    << RawEdge(1, <<"p">>, <<"r","e">>, <<"R","e">>, 1),
       RawEdge(2, <<"r","e">>, <<"p">>, <<"W","r">>, 2),
       RawEdge(3, <<"p">>, <<"p">>, <<"R","E">>, 3) >>

QueryDatasets ==
    { [nodes |-> QueryNodes, edges |-> SeqFilter(QueryEdges, S)] :
        S \in SUBSET Range(QueryEdges) }

\* The tokens the analyst may type.
QueryTokens ==
    { <<"o","p",":">>, <<"o","p",":","r","e">>, <<"o","p",":","R","E">>,
      <<"o","p",":","w">>, <<"r","e">>, <<"t","y","p","e",":","f","i","l","e">>,
      <<"p","r","o","c","e","s","s",":","p">>, <<"p","i","d",":","1">> }

\* The for loop of performLocalSearch over the index: matches are collected
\* in index order until maxSearchResults of them are held.
RECURSIVE CollectMatches(_, _, _, _)
CollectMatches(index, i, patterns, found) ==
    IF i > Len(index) THEN found
    ELSE IF matchesSearchPatterns(index[i], patterns)
         THEN IF Len(found) + 1 >= maxSearchResults
              THEN Append(found, index[i])
              ELSE CollectMatches(index, i + 1, patterns, Append(found, index[i]))
         ELSE CollectMatches(index, i + 1, patterns, found)

\* The matches of a query as performSearch hands it to performLocalSearch:
\* trimmed (the model's queries have no outer blanks) and lower-cased.
LocalMatches(data, q) ==
    CollectMatches(buildSearchIndex(data), 1, parseSearchQuery(toLowerCase(q)), <<>>)

QueryInit ==
    /\ CoreIdle
    /\ AppIdle
    /\ AuxIdle
    /\ qdata \in QueryDatasets
    /\ query = <<>>
    /\ qphase = "typing"
    /\ results = <<>>

\* The analyst types one more token into the search box.
TypeToken ==
    /\ qphase = "typing"
    /\ Len(split(query)) < MaxTokens \/ query = <<>>
    /\ \E t \in QueryTokens :
          query' = IF query = <<>> THEN t ELSE query \o <<Space>> \o t
    /\ UNCHANGED <<qdata, qphase, results, coreVars, appVars, auxVars>>

\* The search runs on the local index.
RunQuery ==
    /\ qphase = "typing"
    /\ query # <<>>
    /\ qphase' = "searched"
    /\ results' = LocalMatches(qdata, query)
    /\ UNCHANGED <<qdata, query, coreVars, appVars, auxVars>>

QueryNext == TypeToken \/ RunQuery

SpecQuery == QueryInit /\ [][QueryNext]_vars

\* The edge of the dataset an index entry was made from.
SourceEdge(item) == CHOOSE e \in Range(qdata.edges) : e.id = item.id

\* C10: for a query that is the single token op:X, every matching item is an
\* edge whose operation contains X when both are compared in lower case.
OperationQueryMatchesOnlyEdges ==
    (qphase = "searched" /\ Len(split(query)) = 1 /\ startsWith(query, OpPrefix)) =>
        \A k \in 1..Len(results) :
            /\ results[k].type = EdgeT
            /\ \E e \in Range(qdata.edges) : e.id = results[k].id
            /\ includes(toLowerCase(SourceEdge(results[k]).operation),
                        toLowerCase(substring(query, 3)))

\* The (src, dst, operation) triple of an edge.
Triple(e) == <<e.src, e.dst, e.operation>>

\* Input edges i and k are in the original_edges of the same output edge.
SameOutputEdge(i, k) ==
    \E j \in 1..Len(output) :
        /\ input[i] \in Range(output[j].original_edges)
        /\ input[k] \in Range(output[j].original_edges)

\* C2: one output edge per distinct (src, dst, operation) triple, and two
\* input edges share an output edge exactly when their triples are equal.
GroupsByTriple ==
    op = "combine" =>
        /\ Len(output) = Cardinality({ Triple(input[i]) : i \in 1..Len(input) })
        /\ \A i, k \in 1..Len(input) :
              SameOutputEdge(i, k) <=> (Triple(input[i]) = Triple(input[k]))

SearchWindowExact ==
    (op = "filter" /\ args.search # {}) =>
        /\ \A i \in 1..Len(input) :
              input[i] \in Range(kept) <=> input[i].entry_index \in args.search
        /\ Len(kept) = Cardinality({ i \in 1..Len(input) :
                                       input[i].entry_index \in args.search })
        /\ output.filters_applied.entry_range[1] \in args.search
        /\ output.filters_applied.entry_range[2] \in args.search
        /\ \A n \in args.search :
              /\ output.filters_applied.entry_range[1] <= n
              /\ n <= output.filters_applied.entry_range[2]
        /\ output.filters_applied.search_active

\* Search mode kept an edge that the range inputs exclude and dropped one
\* that they include.
SearchWindowApplied ==
    /\ op = "filter"
    /\ args.search # {}
    /\ \E e \in Range(kept) : e.entry_index > args.end
    /\ \E e \in Range(input) :
          /\ e \notin Range(kept)
          /\ e.entry_index # Undefined
          /\ args.start <= e.entry_index /\ e.entry_index <= args.end

(***************************************************************************)
(* The application: the data the backend serves, the rendering of a view   *)
(* and the highlighting a search applies to it.                            *)
(***************************************************************************)
\* entry_count of the graph the backend serves.
TotalEntries == 3

\* The most requests of one kind that are in flight at once.
MaxPending == 2

\* CONFIG.maxEntryRange, and the toEntry default of GraphLoader.loadGraph.
maxEntryRange == 10000
loadGraphDefaultTo == 100

\* An end value whose distance from entry 1 exceeds maxEntryRange.
BigEntry == maxEntryRange + 2

MathMin(a, b) == IF a <= b THEN a ELSE b
MathMax(a, b) == IF a >= b THEN a ELSE b

\* The nodes of the served graph after mapNodes: a process and a file whose
\* names occur in no edge.
AppNodes ==
    << [id |-> <<"1">>, label |-> <<"c","m","d">>, type |-> ProcessT],
       [id |-> <<"2">>, label |-> <<"l","o","g">>, type |-> FileT] >>

\* The edge of log entry i after mapEdges: odd entries are reads of the file
\* by the process, even entries are writes in the other direction.
AppEdge(i) ==
    IF i % 2 = 1
    THEN RawEdge(i, <<"1">>, <<"2">>, <<"R","e">>, i)
    ELSE RawEdge(i, <<"2">>, <<"1">>, <<"W","r">>, i)

\* The edges the backend returns for from_entry..to_entry, and the nodes
\* they touch.
BackendEdges(from, to) ==
    LET lo == MathMax(from, 1)
        hi == MathMin(to, TotalEntries)
    IN  IF lo > hi THEN <<>> ELSE [k \in 1..(hi - lo + 1) |-> AppEdge(lo + k - 1)]

BackendNodes(from, to) ==
    SeqFilter(AppNodes, { n \in Range(AppNodes) :
                            \E e \in Range(BackendEdges(from, to)) :
                                n.id = e.src \/ n.id = e.dst })

\* getCurrentData(): the object loadGraph stored for the loaded window.
RawData(cd) ==
    IF cd.loaded
    THEN [nodes |-> BackendNodes(cd.from, cd.to),
          edges |-> BackendEdges(cd.from, cd.to),
          total_entries |-> TotalEntries]
    ELSE [nodes |-> <<>>, edges |-> <<>>, total_entries |-> 0]

\* The whole graph, which the search endpoint matches against.
FullData == RawData(Loaded(1, TotalEntries))

\* The DOM values applyFilters reads; the page of the application has no
\* checkbox combine-consecutive-edges, for which isChecked gives false.
UI(start, end, combine) ==
    [start |-> start, end |-> end, combine_edges |-> combine,
     combine_consecutive |-> FALSE, node_types |-> AllShown]

\* this.filteredData as updateVisualization computes it.
FilteredData(cd, filterActive, indices, start, end, combine) ==
    applyFilters(RawData(cd), IF filterActive THEN indices ELSE {}, UI(start, end, combine))

\* An item colour that was never stored.
NoColor == ""

\* CONFIG.nodeColors
nodeColors(type) ==
    CASE type = ProcessT  -> "#90EE90"
      [] type = FileT     -> "#DDA0DD"
      [] type = RegistryT -> "#87CEEB"
      [] type = NetworkT  -> "#F0E68C"
      [] OTHER            -> "#D3D3D3"

getNodeColor(node) == nodeColors(node.type)

\* No edge of the model carries a sequence colour.
getEdgeColor(edge) == "#848484"

getEdgeWidth(edge) ==
    IF "is_combined" \in DOMAIN edge /\ edge.is_combined /\ edge.combined_count > 1
    THEN MathMin(2 + edge.combined_count, 8)
    ELSE 2

\* processNodeBatch / processEdgeBatch: the DataSet item of a node or edge.
\* hidden and the original* fields are not set by the rendering.
processNode(node) ==
    [id |-> node.id, color |-> getNodeColor(node), hidden |-> "undefined",
     originalColor |-> NoColor, originalHidden |-> "undefined"]

processEdge(edge) ==
    [id |-> edge.id, color |-> getEdgeColor(edge), width |-> getEdgeWidth(edge),
     hidden |-> "undefined",
     originalColor |-> NoColor, originalWidth |-> 0, originalHidden |-> "undefined"]

\* The network once createNetworkVisualization(data) has set its data.
createNetworkVisualization(data) ==
    [loaded |-> TRUE,
     nodes  |-> [i \in 1..Len(data.nodes) |-> processNode(data.nodes[i])],
     edges  |-> [i \in 1..Len(data.edges) |-> processEdge(data.edges[i])]]

\* What is drawn: colour and hidden flag of every node; colour, width and
\* hidden flag of every edge.
Visual(net) ==
    [nodes |-> [i \in 1..Len(net.nodes) |->
                  [id |-> net.nodes[i].id, color |-> net.nodes[i].color,
                   hidden |-> net.nodes[i].hidden]],
     edges |-> [i \in 1..Len(net.edges) |->
                  [id |-> net.edges[i].id, color |-> net.edges[i].color,
                   width |-> net.edges[i].width, hidden |-> net.edges[i].hidden]]]

\* `x || false` for a hidden flag.
OrFalse(h) == IF h = "true" THEN "true" ELSE "false"

\* The loop body of highlightSearchResults for one node.  The original*
\* fields are written to the object DataSet.get returned: they reach the
\* DataSet only when get returns the stored object (copies = FALSE).
highlightNode(node, isHighlighted, isFilterMode, copies) ==
    LET originalColor  == IF node.originalColor = NoColor
                          THEN node.color ELSE node.originalColor
        originalHidden == IF node.originalHidden = "undefined"
                          THEN OrFalse(node.hidden) ELSE node.originalHidden
        stored    == IF copies THEN node
                   ELSE [node EXCEPT !.originalColor = originalColor,
                                     !.originalHidden = originalHidden]
    IN  IF isFilterMode
        THEN [stored EXCEPT !.hidden = IF isHighlighted THEN "false" ELSE "true"]
        ELSE [stored EXCEPT !.hidden = "false",
                          !.color  = IF isHighlighted THEN "#FFD700" ELSE originalColor]

\* The loop body of highlightSearchResults for one edge.
highlightEdge(edge, isHighlighted, isFilterMode, copies) ==
    LET originalColor  == IF edge.originalColor = NoColor
                          THEN edge.color ELSE edge.originalColor
        originalWidth  == IF edge.originalWidth = 0
                          THEN edge.width ELSE edge.originalWidth
        originalHidden == IF edge.originalHidden = "undefined"
                          THEN OrFalse(edge.hidden) ELSE edge.originalHidden
        stored    == IF copies THEN edge
                   ELSE [edge EXCEPT !.originalColor = originalColor,
                                     !.originalWidth = originalWidth,
                                     !.originalHidden = originalHidden]
    IN  IF isFilterMode
        THEN [stored EXCEPT !.hidden = IF isHighlighted THEN "false" ELSE "true"]
        ELSE [stored EXCEPT !.hidden = "false",
                          !.color  = IF isHighlighted THEN "#FF4500" ELSE originalColor,
                          !.width  = IF isHighlighted THEN 3 ELSE originalWidth]

\* extractNodeIds / extractEdgeIds
extractNodeIds(found) == { r.id : r \in { x \in found : x.type = NodeT } }
extractEdgeIds(found) == { r.id : r \in { x \in found : x.type = EdgeT } }

\* highlightSearchResults() on the network net.
highlightSearchResults(net, found, mode, copies) ==
    IF ~net.loaded THEN net
    ELSE [net EXCEPT
            !.nodes = [i \in 1..Len(net.nodes) |->
                         highlightNode(net.nodes[i],
                                       net.nodes[i].id \in extractNodeIds(found),
                                       mode = "filter", copies)],
            !.edges = [i \in 1..Len(net.edges) |->
                         highlightEdge(net.edges[i],
                                       net.edges[i].id \in extractEdgeIds(found),
                                       mode = "filter", copies)]]

\* The restore loops of clearSearch on the network net.
restoreNetwork(net) ==
    IF ~net.loaded THEN net
    ELSE [net EXCEPT
            !.nodes = [i \in 1..Len(net.nodes) |->
                         [net.nodes[i] EXCEPT
                            !.hidden = OrFalse(net.nodes[i].originalHidden),
                            !.color  = IF net.nodes[i].originalColor = NoColor
                                       THEN @ ELSE net.nodes[i].originalColor]],
            !.edges = [i \in 1..Len(net.edges) |->
                         [net.edges[i] EXCEPT
                            !.hidden = OrFalse(net.edges[i].originalHidden),
                            !.color  = IF net.edges[i].originalColor = NoColor
                                       THEN @ ELSE net.edges[i].originalColor,
                            !.width  = IF net.edges[i].originalWidth = 0
                                       THEN 1 ELSE net.edges[i].originalWidth]]]

\* What performSearch keeps of a match: its kind, id and entry index.
ResultOf(item) == [type |-> item.type, id |-> item.id, entry_index |-> item.entry_index]

\* The matches of a term in a dataset.
Matches(data, term) ==
    { ResultOf(m) : m \in Range(CollectMatches(buildSearchIndex(data), 1,
                                               parseSearchQuery(term), <<>>)) }

\* The terms the analyst searches for: the process name (matches a node
\* only) and the reads (matches edges only).
SearchTerms == { <<"c","m","d">>, <<"o","p",":","r","e">> }

\* The matched_nodes and matched_edges the search endpoint returns for a
\* term: the matches of the term in the whole graph.
ServerMatches(term) == Matches(FullData, term)

\* performLocalSearch(term): the matches in the index of the loaded window
\* (rawDataIndex); nothing is indexed before the first load.
performLocalSearch(cd, term) ==
    IF cd.loaded THEN Matches(RawData(cd), term) ELSE {}

\* matchingEntryIndices: the truthy entry indices of the matched edges.
matchingEntryIndices(found) ==
    { r.entry_index : r \in { x \in found : /\ x.type = EdgeT
                                            /\ x.entry_index # Undefined
                                            /\ x.entry_index # 0 } }


(***************************************************************************)
(* The application as a state machine: one action per event handler.  A    *)
(* handler runs to completion; the data of the model is below the batch    *)
(* sizes of the progressive rendering, so a rendering that a handler       *)
(* starts sets the network's data after the handler's own continuation     *)
(* and before the next event.                                              *)
(***************************************************************************)
\* The values the analyst types into entry-start and entry-end.
StartValues == {1, 2}
EndValues == {1, BigEntry}

\* The window buttons are followed while entry-start stays at most MaxStart
\* and entry-end at least MinEnd.
MaxStart == TotalEntries + 1
MinEnd == 0

\* The data-range values of the preset buttons; All stands for "all".
All == 0
PresetRanges == {2, All}

loadVars == <<pendingLoads, lastLoad, lastLoadFailed>>
searchVars == <<searchMode, isSearchActive, currentSearchTerm, searchResults,
                searchFilterActive, searchEntryIndices, pendingSearches, lastSearch>>

\* The page after init() and the selection of the graph: nothing is loaded,
\* updateEntryRange has filled the inputs from [1, entry_count], and
\* updateWindowNavigationButtons has disabled both window buttons.
AppInit ==
    /\ CoreIdle
    /\ QueryIdle
    /\ AuxIdle
    /\ currentData = NotLoaded
    /\ entryStart = 1
    /\ entryEnd = MathMin(loadGraphDefaultTo, TotalEntries)
    /\ disabled = [c \in RangeControls |->
                     c \in {"last-window-btn", "next-window-btn"}]
    /\ combineEdges = FALSE
    /\ searchMode = "highlight"
    /\ isSearchActive = FALSE
    /\ currentSearchTerm = <<>>
    /\ searchResults = {}
    /\ searchFilterActive = FALSE
    /\ searchEntryIndices = {}
    /\ network = NoNetwork
    /\ pendingLoads = {}
    /\ pendingSearches = {}
    /\ getCopies \in BOOLEAN
    /\ lastLoad = <<>>
    /\ lastLoadFailed = FALSE
    /\ lastSearch = <<>>
    /\ preSearch = <<>>
    /\ preClear = <<>>

\* updateWindowNavigationButtons() applied to the flags d.
updateWindowNavigationButtons(d, cd, start, end) ==
    IF ~cd.loaded
    THEN [d EXCEPT !["last-window-btn"] = TRUE, !["next-window-btn"] = TRUE]
    ELSE [d EXCEPT !["last-window-btn"] = ~(start > 1),
                   !["next-window-btn"] = ~(end < TotalEntries)]

\* toggleRangeControls(enabled)
toggleRangeControls(enabled) == [c \in RangeControls |-> ~enabled]

\* graphLoader.loadGraph(datasetId, from, to) is called and awaits the backend.
StartLoad(from, to) ==
    /\ Cardinality(pendingLoads \cup {[from |-> from, to |-> to]}) <= MaxPending
    /\ pendingLoads' = pendingLoads \cup {[from |-> from, to |-> to]}
    /\ lastLoad' = <<[from |-> from, to |-> to]>>
    /\ lastLoadFailed' = FALSE

\* The Load button: loadGraph(graphId) with the default window.
ClickLoad ==
    /\ StartLoad(1, loadGraphDefaultTo)
    /\ UNCHANGED <<currentData, entryStart, entryEnd, disabled, combineEdges,
                   network, getCopies, searchVars, preSearch, preClear,
                   coreVars, queryVars, auxVars>>

\* The Apply Range button: onApplyRangeClick -> loadGraphWithCurrentRange.
ClickApply ==
    /\ ~disabled["apply-range-btn"]
    /\ StartLoad(entryStart, entryEnd)
    /\ UNCHANGED <<currentData, entryStart, entryEnd, disabled, combineEdges,
                   network, getCopies, searchVars, preSearch, preClear,
                   coreVars, queryVars, auxVars>>

\* The backend answers a load: loadGraph stores the window, and loadGraph /
\* loadGraphWithCurrentRange of app.js continue after their await.
LoadResponds ==
    \E w \in pendingLoads :
        /\ pendingLoads' = pendingLoads \ {w}
        /\ currentData' = Loaded(w.from, w.to)
        /\ entryStart' = w.from
        /\ entryEnd' = w.to
        /\ network' = createNetworkVisualization(
                          FilteredData(Loaded(w.from, w.to), searchFilterActive,
                                       searchEntryIndices, w.from, w.to, combineEdges))
        /\ disabled' = updateWindowNavigationButtons(disabled, Loaded(w.from, w.to),
                                                     w.from, w.to)
        /\ UNCHANGED <<combineEdges, getCopies, lastLoad, lastLoadFailed,
                       searchVars, preSearch, preClear, coreVars, queryVars, auxVars>>

\* The backend fails a load: loadGraph throws and the caller logs the error.
LoadFails ==
    \E w \in pendingLoads :
        /\ pendingLoads' = pendingLoads \ {w}
        /\ lastLoadFailed' = (lastLoadFailed \/ lastLoad = <<w>>)
        /\ UNCHANGED <<currentData, entryStart, entryEnd, disabled, combineEdges,
                       network, getCopies, lastLoad, searchVars,
                       preSearch, preClear, coreVars, queryVars, auxVars>>

\* The analyst types into entry-start; the input listener updates the
\* window buttons.
TypeStart ==
    \E v \in StartValues :
        /\ ~disabled["entry-start"]
        /\ v # entryStart
        /\ entryStart' = v
        /\ disabled' = updateWindowNavigationButtons(disabled, currentData, v, entryEnd)
        /\ UNCHANGED <<currentData, entryEnd, combineEdges, network, getCopies,
                       loadVars, searchVars, preSearch, preClear,
                       coreVars, queryVars, auxVars>>

TypeEnd ==
    \E v \in EndValues :
        /\ ~disabled["entry-end"]
        /\ v # entryEnd
        /\ entryEnd' = v
        /\ disabled' = updateWindowNavigationButtons(disabled, currentData, entryStart, v)
        /\ UNCHANGED <<currentData, entryStart, combineEdges, network, getCopies,
                       loadVars, searchVars, preSearch, preClear,
                       coreVars, queryVars, auxVars>>

\* A preset button: applyPresetRange(range), then applyEntryRange(), then
\* updateWindowNavigationButtons().
ClickPreset ==
    \E range \in PresetRanges :
        /\ ~disabled["preset-btn"]
        /\ IF ~currentData.loaded
           THEN /\ disabled' = updateWindowNavigationButtons(disabled, currentData,
                                                             entryStart, entryEnd)
                /\ UNCHANGED <<entryStart, entryEnd, network>>
           ELSE LET startEntry == 1
                    endEntry == IF range = All THEN TotalEntries
                                ELSE MathMin(range, TotalEntries)
                    rejected == \/ startEntry > endEntry
                                \/ endEntry - startEntry > maxEntryRange
                IN  /\ entryStart' = startEntry
                    /\ entryEnd' = endEntry
                    /\ disabled' = updateWindowNavigationButtons(disabled, currentData,
                                                                 startEntry, endEntry)
                    /\ network' = IF rejected THEN network
                                  ELSE createNetworkVisualization(
                                           FilteredData(currentData, searchFilterActive,
                                                        searchEntryIndices, startEntry,
                                                        endEntry, combineEdges))
        /\ UNCHANGED <<currentData, combineEdges, getCopies, loadVars, searchVars,
                       preSearch, preClear, coreVars, queryVars, auxVars>>

\* The Last window button: navigateToLastWindow().
ClickLast ==
    /\ ~disabled["last-window-btn"]
    /\ currentData.loaded
    /\ LET windowSize == entryEnd - entryStart + 1
           newEnd == entryStart - 1
           newStart == MathMax(1, newEnd - windowSize + 1)
       IN  /\ ~(newStart < 1 \/ newEnd < 1)
           /\ newStart <= MaxStart
           /\ entryStart' = newStart
           /\ entryEnd' = newEnd
           /\ StartLoad(newStart, newEnd)
    /\ UNCHANGED <<currentData, disabled, combineEdges, network, getCopies,
                   searchVars, preSearch, preClear, coreVars, queryVars, auxVars>>

\* The Next window button: navigateToNextWindow().
ClickNext ==
    /\ ~disabled["next-window-btn"]
    /\ currentData.loaded
    /\ LET windowSize == entryEnd - entryStart + 1
           newStart == entryEnd + 1
           newEnd == MathMin(TotalEntries, newStart + windowSize - 1)
       IN  /\ ~(newStart > TotalEntries)
           /\ newEnd >= MinEnd
           /\ entryStart' = newStart
           /\ entryEnd' = newEnd
           /\ StartLoad(newStart, newEnd)
    /\ UNCHANGED <<currentData, disabled, combineEdges, network, getCopies,
                   searchVars, preSearch, preClear, coreVars, queryVars, auxVars>>

\* The analyst waits for the answer of a load before asking for another.
WaitingClickLoad == pendingLoads = {} /\ ClickLoad

WaitingClickApply == pendingLoads = {} /\ ClickApply

WaitingClickLast == pendingLoads = {} /\ ClickLast

WaitingClickNext == pendingLoads = {} /\ ClickNext

RangeNext ==
    \/ WaitingClickLoad \/ WaitingClickApply \/ LoadResponds \/ LoadFails
    \/ TypeStart \/ TypeEnd \/ ClickPreset \/ WaitingClickLast \/ WaitingClickNext

\* The range handlers never call DataSet.get, so one value of getCopies is
\* followed.
RangeInit == AppInit /\ getCopies

SpecRange == RangeInit /\ [][RangeNext]_vars

\* The impatient analyst: loads are asked for while others are in flight,
\* and the backend answers them in any order.
RaceNext ==
    \/ ClickLoad \/ TypeEnd \/ ClickApply \/ LoadResponds \/ LoadFails

SpecRace == RangeInit /\ [][RaceNext]_vars

\* C5: Through every way of applying a range, a range with start > end or
\* with end - start > maxEntryRange is rejected and no graph load is
\* performed with it: no load in flight has such a range.
InvalidRange(w) == w.from > w.to \/ w.to - w.from > maxEntryRange

NoLoadWithInvalidRange == \A w \in pendingLoads : ~InvalidRange(w)

\* C7: A newer range request supersedes an older one in flight: once no
\* load is in flight, the loader's current data and the rendered graph are
\* those of the load that was asked for last (unless that load failed).
LastLoadWins ==
    (pendingLoads = {} /\ lastLoad # <<>> /\ ~lastLoadFailed) =>
        /\ currentData = Loaded(lastLoad[1].from, lastLoad[1].to)
        /\ network = createNetworkVisualization(
                         FilteredData(currentData, FALSE, {}, lastLoad[1].from,
                                      lastLoad[1].to, combineEdges))

(***************************************************************************)
(* The search handlers.                                                    *)
(***************************************************************************)
\* performSearch(term) up to its first await.  With a graph loaded the
\* request goes to the backend; without one performLocalSearch runs at once
\* on the empty index.
performSearch(term) ==
    /\ currentSearchTerm' = term
    /\ isSearchActive' = TRUE
    /\ searchResults' = {}
    /\ lastSearch' = term
    /\ IF currentData.loaded
       THEN /\ Cardinality(pendingSearches \cup {term}) <= MaxPending
            /\ pendingSearches' = pendingSearches \cup {term}
            /\ UNCHANGED disabled
       ELSE /\ disabled' = toggleRangeControls(FALSE)
            /\ UNCHANGED pendingSearches
    /\ UNCHANGED <<currentData, entryStart, entryEnd, combineEdges,
                   searchFilterActive, searchEntryIndices, network, getCopies,
                   loadVars, coreVars, queryVars, auxVars>>

\* The search button, the Enter key or the debounce timer.
searchButton ==
    \E term \in SearchTerms :
        /\ performSearch(term)
        /\ UNCHANGED searchMode

PerformSearch == searchButton /\ UNCHANGED <<preSearch, preClear>>

\* The search-filter-mode checkbox: the mode changes and the current term,
\* if there is one, is searched again.
filterModeCheckbox ==
    /\ searchMode' = IF searchMode = "filter" THEN "highlight" ELSE "filter"
    /\ IF currentSearchTerm # <<>>
       THEN performSearch(currentSearchTerm)
       ELSE UNCHANGED <<currentData, entryStart, entryEnd, disabled, combineEdges,
                        isSearchActive, currentSearchTerm, searchResults,
                        searchFilterActive, searchEntryIndices, network,
                        pendingSearches, getCopies, loadVars, lastSearch,
                        coreVars, queryVars, auxVars>>

ToggleFilterMode == filterModeCheckbox /\ UNCHANGED <<preSearch, preClear>>

\* The backend answers a search (ok), or the request fails and the catch
\* block falls back to performLocalSearch on the loaded window.  Either way
\* the matches are added to searchResults, the range controls are disabled,
\* applySearchFilter recomputes the view when an edge matched, and
\* highlightSearchResults runs - on the network as it is before the new
\* rendering sets its data.
SearchResponds ==
    \E term \in pendingSearches, ok \in BOOLEAN :
        LET found == IF ok THEN ServerMatches(term)
                     ELSE performLocalSearch(currentData, term)
            indices == matchingEntryIndices(found)
            rerender == indices # {} /\ currentData.loaded
        IN  /\ pendingSearches' = pendingSearches \ {term}
            /\ searchResults' = searchResults \cup found
            /\ searchFilterActive' = (searchFilterActive \/ indices # {})
            /\ searchEntryIndices' = IF indices # {} THEN indices
                                     ELSE searchEntryIndices
            /\ disabled' = IF rerender
                           THEN updateWindowNavigationButtons(
                                    toggleRangeControls(FALSE), currentData,
                                    entryStart, entryEnd)
                           ELSE toggleRangeControls(FALSE)
            /\ network' = IF rerender
                          THEN createNetworkVisualization(
                                   FilteredData(currentData, TRUE, indices,
                                                entryStart, entryEnd, combineEdges))
                          ELSE highlightSearchResults(network, searchResults \cup found,
                                                      searchMode, getCopies)
            /\ UNCHANGED <<currentData, entryStart, entryEnd, combineEdges,
                           searchMode, isSearchActive, currentSearchTerm,
                           getCopies, loadVars, lastSearch, preSearch, preClear,
                           coreVars, queryVars, auxVars>>

\* The network after clearSearchFilter() with updateVisualization() left out.
clearSearchFilterNoUpdate(net, cd, start, end, combine) == net

\* The network after clearSearchFilter(): updateVisualization() renders the
\* range view when a graph is loaded.  net is the network as clearSearch's
\* restore loops leave it.
clearSearchFilter(net, cd, start, end, combine) ==
    IF cd.loaded
    THEN createNetworkVisualization(FilteredData(cd, FALSE, {}, start, end, combine))
    ELSE net

\* The clear button, the Escape key in the search box or an emptied search
\* box: clearSearch().
clearSearch ==
    /\ searchResults' = {}
    /\ currentSearchTerm' = <<>>
    /\ isSearchActive' = FALSE
    /\ searchFilterActive' = FALSE
    /\ searchEntryIndices' = {}
    /\ disabled' = IF currentData.loaded
                   THEN updateWindowNavigationButtons(toggleRangeControls(TRUE),
                                                      currentData, entryStart, entryEnd)
                   ELSE toggleRangeControls(TRUE)
    /\ network' = clearSearchFilter(restoreNetwork(network), currentData,
                                    entryStart, entryEnd, combineEdges)
    /\ lastSearch' = <<>>
    /\ UNCHANGED <<currentData, entryStart, entryEnd, combineEdges, searchMode,
                   pendingSearches, getCopies, loadVars, coreVars, queryVars, auxVars>>

ClearSearch == clearSearch /\ UNCHANGED <<preSearch, preClear>>

\* The combine-edges checkbox: onFeatureToggle().
FeatureToggle ==
    /\ combineEdges' = ~combineEdges
    /\ IF currentData.loaded
       THEN /\ network' = createNetworkVisualization(
                              FilteredData(currentData, searchFilterActive,
                                           searchEntryIndices, entryStart, entryEnd,
                                           ~combineEdges))
            /\ disabled' = updateWindowNavigationButtons(disabled, currentData,
                                                         entryStart, entryEnd)
       ELSE UNCHANGED <<network, disabled>>
    /\ UNCHANGED <<currentData, entryStart, entryEnd, getCopies, loadVars,
                   searchVars, preSearch, preClear, coreVars, queryVars, auxVars>>

\* Searches, clears and toggles in any interleaving with the answers.
SearchNext ==
    \/ ClickLoad \/ LoadResponds \/ ClickPreset
    \/ PerformSearch \/ ToggleFilterMode \/ SearchResponds \/ ClearSearch
    \/ FeatureToggle

SpecSearch == AppInit /\ [][SearchNext]_vars

\* The analyst works one step at a time: a search is started when nothing
\* is in flight, and the window is changed only while no search is active.
\* preSearch records what the graph showed when the first search of a
\* sequence started, preClear what it showed when clearSearch was called.
Idle == pendingLoads = {} /\ pendingSearches = {}

SeqClickLoad == ~isSearchActive /\ pendingLoads = {} /\ ClickLoad

SeqClickPreset == ~isSearchActive /\ pendingLoads = {} /\ ClickPreset

SeqPerformSearch ==
    /\ Idle
    /\ searchButton
    /\ preSearch' = IF isSearchActive THEN preSearch ELSE <<Visual(network)>>
    /\ UNCHANGED preClear

SeqToggleFilterMode ==
    /\ Idle
    /\ filterModeCheckbox
    /\ preSearch' = IF isSearchActive \/ currentSearchTerm = <<>>
                    THEN preSearch ELSE <<Visual(network)>>
    /\ UNCHANGED preClear

SeqClearSearch ==
    /\ Idle
    /\ clearSearch
    /\ preClear' = <<Visual(network)>>
    /\ UNCHANGED preSearch

SeqNext ==
    \/ SeqClickLoad \/ LoadResponds \/ SeqClickPreset
    \/ SeqPerformSearch \/ SeqToggleFilterMode \/ SearchResponds \/ SeqClearSearch

SpecSeq == AppInit /\ [][SeqNext]_vars

\* C6: A newer search request supersedes an older one in flight: once no
\* search request is pending, the results, the search-active flag and the
\* entry indices applied to the window are those of the later request, a
\* clearSearch leaving no result, no active search and no index applied.
LastSearchWins ==
    pendingSearches = {} =>
        IF lastSearch = <<>>
        THEN /\ searchResults = {}
             /\ ~isSearchActive
             /\ ~searchFilterActive
             /\ searchEntryIndices = {}
        ELSE /\ isSearchActive
             /\ searchResults \subseteq ServerMatches(lastSearch)

\* C8: The range controls are disabled for the whole duration of a search:
\* while a search is active and its results have arrived, the two inputs,
\* the Apply Range button, the Last and Next buttons and the preset buttons
\* are all disabled, also after the view has been recomputed.
RangeControlsDisabledDuringSearch ==
    (isSearchActive /\ pendingSearches = {}) =>
        \A c \in RangeControls : disabled[c]

\* C9: Search is visually non-destructive: when clearSearch ends a sequence
\* of searches, every node's color and hidden flag and every edge's color,
\* width and hidden flag are what they were before the first search.
ClearSearchRestoresView ==
    [][(isSearchActive /\ ~isSearchActive') => Visual(network') = preSearch[1]]_vars

\* C9 (witness): a search had changed what the graph shows, clearSearch was
\* called, and the graph shows again what it showed before the search.
ClearedAfterVisibleSearch ==
    /\ ~isSearchActive
    /\ network.loaded
    /\ preSearch # <<>>
    /\ preClear # <<>>
    /\ preClear[1] # preSearch[1]
    /\ Visual(network) = preSearch[1]

\* The predicate parseSearchQuery recognizes from one token, applied to an
\* item: the item matches the query made of that token alone.
SatisfiesToken(item, token) ==
    matchesSearchPatterns(item, ParseTerm(EmptyPatterns, token))

\* C11: query predicates are conjunctive: every item a query matches
\* satisfies the predicate recognized from every token of the query.
MatchesSatisfyEveryToken ==
    qphase = "searched" =>
        \A k \in 1..Len(results) :
            \A t \in Range(split(toLowerCase(query))) :
                SatisfiesToken(results[k], t)


\* The NAME of a token process:NAME, the ID of a token pid:ID.
ProcessName(token) ==
    IF startsWith(token, ProcessPrefix) THEN substring(token, Len(ProcessPrefix))
    ELSE substring(token, Len(PidPrefix))

\* C12: a query that is the single token process:NAME or pid:ID matches
\* exactly the items whose searchable text contains NAME, respectively ID.
ProcessQueryMatchesByText ==
    (/\ qphase = "searched"
     /\ Len(split(query)) = 1
     /\ startsWith(query, ProcessPrefix) \/ startsWith(query, PidPrefix)) =>
        \A item \in Range(buildSearchIndex(qdata)) :
            item \in Range(results) <=>
                includes(item.text, ProcessName(toLowerCase(query)))


\* C13: for a query that is the single token type:T, every matching item is
\* a node of type T; edges and nodes of another type do not match.
TypeQueryMatchesOnlyType ==
    (/\ qphase = "searched"
     /\ Len(split(query)) = 1
     /\ startsWith(query, TypePrefix)) =>
        \A k \in 1..Len(results) :
            /\ results[k].type = NodeT
            /\ toLowerCase(results[k].dataType) = substring(toLowerCase(query), 5)


(***************************************************************************)
(* The result cap of Search, by the sizes of the collections: how many     *)
(* items a completed search leaves in searchResults and which counts it    *)
(* hands to updateSearchResultInfo.                                        *)
(***************************************************************************)

\* The numbers of matching nodes and of matching edges the machine starts
\* from: none, one, and the values around maxSearchResults.
CapCounts ==
    { 0, 1, maxSearchResults - 1, maxSearchResults, maxSearchResults + 1,
      2 * maxSearchResults }

\* The loop of performLocalSearch over the matching items of the index: each
\* one is added, and the loop stops once searchResults holds maxSearchResults.
\* The loop ends after its first iteration that adds the last matching item
\* or reaches the maximum.
LoopEnds(size, remaining, k) ==
    k = remaining \/ (k > 0 /\ size + k >= maxSearchResults)

LocalLoop(size, remaining) ==
    size + CHOOSE k \in 0..remaining :
               /\ LoopEnds(size, remaining, k)
               /\ \A j \in 0..(k - 1) : ~LoopEnds(size, remaining, j)

\* updateSearchResultInfo(resultCount, totalMatches, query): the result info
\* is displayed with a text made from the two counts.
updateSearchResultInfo(resultCount, totalMatches) ==
    [shown |-> TRUE, resultCount |-> resultCount, totalMatches |-> totalMatches]

\* The text names the total only next to a non-empty result whose total
\* exceeds the maximum.
NoticeReportsTotal ==
    /\ capInfo.shown
    /\ capInfo.resultCount > 0
    /\ capInfo.totalMatches > maxSearchResults

CapInit ==
    /\ CoreIdle
    /\ QueryIdle
    /\ AppIdle
    /\ capNodes \in CapCounts
    /\ capEdges \in CapCounts
    /\ capPhase = "idle"
    /\ capSize = 0
    /\ capInfo = NoInfo
    /\ RegIdle
    /\ ExtIdle

\* performLocalSearch from empty searchResults: the capped loop, then the
\* notice with countTotalMatches over the same index.
CapLocalSearch(phase) ==
    /\ capPhase = "idle"
    /\ capPhase' = phase
    /\ capSize' = LocalLoop(0, capNodes + capEdges)
    /\ capInfo' = updateSearchResultInfo(capSize', capNodes + capEdges)
    /\ UNCHANGED <<capNodes, capEdges, coreVars, queryVars, appVars, regVars, extVars>>

\* performSearch without a graph id: the local index answers.
SearchWithoutGraph == CapLocalSearch("local")

\* performSearch with a graph id whose request fails: the catch block falls
\* back to performLocalSearch.
SearchApiFails == CapLocalSearch("fallback")

\* The matched_nodes or matched_edges of the endpoint's answer.  The endpoint
\* is not part of the sources: it returns every match, or it limits each list
\* to maxSearchResults.
Answer(count, limited) ==
    IF limited /\ count > maxSearchResults THEN maxSearchResults ELSE count

\* performSearch with a graph id whose request succeeds: every matched node
\* and every matched edge of the answer is added to searchResults, and the
\* notice is given resultCount for both counts.
SearchApiAnswers ==
    /\ capPhase = "idle"
    /\ \E limited \in BOOLEAN :
          /\ capSize' = Answer(capNodes, limited) + Answer(capEdges, limited)
          /\ capInfo' = updateSearchResultInfo(capSize', capSize')
    /\ capPhase' = "api"
    /\ UNCHANGED <<capNodes, capEdges, coreVars, queryVars, appVars, regVars, extVars>>

\* clearSearch: searchResults.clear() and the result info is hidden (its
\* text stays).
CapClearSearch ==
    /\ capPhase # "idle"
    /\ capPhase' = "idle"
    /\ capSize' = 0
    /\ capInfo' = [capInfo EXCEPT !.shown = FALSE]
    /\ UNCHANGED <<capNodes, capEdges, coreVars, queryVars, appVars, regVars, extVars>>

CapNext ==
    \/ SearchWithoutGraph
    \/ SearchApiFails
    \/ SearchApiAnswers
    \/ CapClearSearch

SpecCap == CapInit /\ [][CapNext]_vars

\* C14: after every completed search, however it was answered,
\* searchResults holds at most maxSearchResults items, and when more items
\* match than the maximum the notice reports the shown and the total count.
SearchResultsCapped ==
    capPhase # "idle" =>
        /\ capSize <= maxSearchResults
        /\ capNodes + capEdges > maxSearchResults =>
               /\ NoticeReportsTotal
               /\ capInfo.resultCount = capSize
               /\ capInfo.totalMatches = capNodes + capEdges

\* The same statement for the searches performLocalSearch answers.
LocalSearchResultsCapped ==
    capPhase \in {"local", "fallback"} =>
        /\ capSize <= maxSearchResults
        /\ capNodes + capEdges > maxSearchResults =>
               /\ NoticeReportsTotal
               /\ capInfo.resultCount = capSize
               /\ capInfo.totalMatches = capNodes + capEdges


(***************************************************************************)
(* Registry paths: the mapping of registry nodes to shortened labels.      *)
(***************************************************************************)
Backslash == "\\"
Tilde == "~"

\* String.prototype.split('\\'): the parts between the backslashes, empty
\* parts included.
RECURSIVE SplitPathFrom(_, _, _)
SplitPathFrom(s, i, cur) ==
    IF i > Len(s) THEN <<cur>>
    ELSE IF s[i] = Backslash THEN <<cur>> \o SplitPathFrom(s, i + 1, <<>>)
         ELSE SplitPathFrom(s, i + 1, Append(cur, s[i]))

splitPath(s) == SplitPathFrom(s, 1, <<>>)

\* Array.prototype.join('\\')
RECURSIVE joinPath(_)
joinPath(parts) ==
    IF parts = <<>> THEN <<>>
    ELSE IF Len(parts) = 1 THEN parts[1]
         ELSE parts[1] \o <<Backslash>> \o joinPath(Tail(parts))

\* Array.prototype.slice(from, to) and slice(from), with 0-based indices.
slice(s, from, to) == SubSeq(s, from + 1, to)
sliceFrom(s, from) == SubSeq(s, from + 1, Len(s))

\* The entry groupByRootKey pushes for a node.
GroupEntry(node) ==
    [id |-> node.id, label |-> node.label, parts |-> splitPath(node.label)]

\* groupByRootKey: the entries of the registry nodes under their first path
\* part, in the order of the nodes.
groupByRootKey(registryNodes) ==
    LET entries == [i \in 1..Len(registryNodes) |-> GroupEntry(registryNodes[i])]
        SameRoot(rootKey) ==
            LET InGroup(entry) == entry.parts[1] = rootKey
            IN  SelectSeq(entries, InGroup)
    IN  [rootKey \in { entries[i].parts[1] : i \in 1..Len(entries) } |->
            SameRoot(rootKey)]

\* The inner loop of findCommonPrefixes: the number of leading parts two
\* paths share, counted over all but the last part of the shorter path.
RECURSIVE CommonLength(_, _, _, _)
CommonLength(path1, path2, k, commonLength) ==
    IF k >= MathMin(Len(path1), Len(path2)) - 1 THEN commonLength
    ELSE IF path1[k + 1] = path2[k + 1]
         THEN CommonLength(path1, path2, k + 1, k + 1)
         ELSE commonLength

\* prefixMap.get(prefixKey).add(id1).add(id2), the map kept in insertion
\* order.
RECURSIVE AddToPrefixMap(_, _, _)
AddToPrefixMap(prefixMap, prefixKey, ids) ==
    IF prefixMap = <<>> THEN << [prefix |-> prefixKey, nodeIds |-> ids] >>
    ELSE IF Head(prefixMap).prefix = prefixKey
         THEN << [Head(prefixMap) EXCEPT !.nodeIds = @ \cup ids] >>
              \o Tail(prefixMap)
         ELSE << Head(prefixMap) >>
              \o AddToPrefixMap(Tail(prefixMap), prefixKey, ids)

\* The two loops of findCommonPrefixes over the pairs i < j of a group
\* (1-based here).
RECURSIVE PrefixPairs(_, _, _, _)
PrefixPairs(group, i, j, prefixMap) ==
    IF i > Len(group) THEN prefixMap
    ELSE IF j > Len(group) THEN PrefixPairs(group, i + 1, i + 2, prefixMap)
    ELSE LET path1 == group[i].parts
             path2 == group[j].parts
             commonLength == CommonLength(path1, path2, 0, 0)
         IN  IF commonLength >= 2
             THEN PrefixPairs(group, i, j + 1,
                      AddToPrefixMap(prefixMap,
                                     joinPath(slice(path1, 0, commonLength)),
                                     {group[i].id, group[j].id}))
             ELSE PrefixPairs(group, i, j + 1, prefixMap)

\* .sort((a, b) => b.length - a.length): stable, longest prefix first.
RECURSIVE InsertByLength(_, _)
InsertByLength(sorted, p) ==
    IF sorted = <<>> THEN <<p>>
    ELSE IF Head(sorted).length >= p.length
         THEN <<Head(sorted)>> \o InsertByLength(Tail(sorted), p)
         ELSE <<p>> \o sorted

RECURSIVE SortByLength(_)
SortByLength(s) ==
    IF s = <<>> THEN <<>>
    ELSE InsertByLength(SortByLength(SubSeq(s, 1, Len(s) - 1)), s[Len(s)])

\* findCommonPrefixes without the sort: the candidates stay in the order in
\* which the pairs produced them.
findCommonPrefixesUnsorted(group) ==
    LET prefixMap == PrefixPairs(group, 1, 2, <<>>)
    IN  [i \in 1..Len(prefixMap) |->
            [prefix  |-> prefixMap[i].prefix,
             nodeIds |-> prefixMap[i].nodeIds,
             length  |-> Len(splitPath(prefixMap[i].prefix))]]

findCommonPrefixes(group) ==
    LET prefixMap == PrefixPairs(group, 1, 2, <<>>)
    IN  SortByLength([i \in 1..Len(prefixMap) |->
            [prefix  |-> prefixMap[i].prefix,
             nodeIds |-> prefixMap[i].nodeIds,
             length  |-> Len(splitPath(prefixMap[i].prefix))]])

\* A shortening that drops one part more than the prefix.
ShortenedWithOneMore(parts, prefixParts) ==
    parts[1] \o <<Backslash, Tilde, Backslash>>
             \o joinPath(sliceFrom(parts, Len(prefixParts) + 1))

\* The label createShortenedLabel builds from the parts that remain.
ShortenedWith(parts, prefixParts) ==
    parts[1] \o <<Backslash, Tilde, Backslash>>
             \o joinPath(sliceFrom(parts, Len(prefixParts)))

RECURSIVE createShortenedLabel(_, _)
createShortenedLabel(nodeEntry, prefixes) ==
    IF prefixes = <<>> THEN nodeEntry.label
    ELSE LET prefixInfo == Head(prefixes)
             prefixParts == splitPath(prefixInfo.prefix)
         IN  IF /\ nodeEntry.id \in prefixInfo.nodeIds
                /\ Cardinality(prefixInfo.nodeIds) >= 2
                /\ Len(nodeEntry.parts) > Len(prefixParts) + 1
             THEN ShortenedWith(nodeEntry.parts, prefixParts)
             ELSE createShortenedLabel(nodeEntry, Tail(prefixes))

\* createRegistryPathMapping(nodes): for every registry node id the original
\* label, the shortened label and whether they differ.
createRegistryPathMapping(nodes) ==
    LET IsRegistry(node) == node.type = RegistryT
        registryNodes == SelectSeq(nodes, IsRegistry)
        rootGroups == groupByRootKey(registryNodes)
        Info(node) ==
            LET entry == GroupEntry(node)
                group == rootGroups[entry.parts[1]]
                shortened ==
                    IF Len(registryNodes) < 2 \/ Len(group) < 2 THEN node.label
                    ELSE createShortenedLabel(entry, findCommonPrefixes(group))
            IN  [original |-> node.label,
                 shortened |-> shortened,
                 needsOptimization |-> shortened # node.label]
    IN  [id \in { registryNodes[i].id : i \in 1..Len(registryNodes) } |->
            Info(CHOOSE node \in Range(registryNodes) : node.id = id)]

\* getRegistryLabel(nodeId, mapping, isSelected); undefined (as falsy as
\* null) without an entry.
getRegistryLabel(nodeId, mapping, isSelected) ==
    IF nodeId \notin DOMAIN mapping THEN Null
    ELSE IF isSelected THEN Str(mapping[nodeId].original)
         ELSE Str(mapping[nodeId].shortened)


(***************************************************************************)
(* The registry labels as a state machine: a node list is assembled and    *)
(* rendered.                                                               *)
(***************************************************************************)
MaxRegNodes == 3

\* The registry paths of the model, by their parts: two roots, shared
\* prefixes of two and three parts, a path with an empty part and paths
\* whose second part is the tilde.
RegPaths ==
    LET h == <<"h">>
        k == <<"k">>
        a == <<"a">>
        b == <<"b">>
        t == <<Tilde>>
    IN  { <<h>>, <<h, a>>, <<h, a, b>>, <<h, a, b, a>>, <<h, a, b, b>>,
          <<h, a, a, b>>, <<h, a, b, a, b>>, <<h, a, <<>>, b>>,
          <<k, a, b, a>>, <<k, a, b, b>>, <<h, t, b, a>>, <<h, t, a, a>> }

RegLabels == { joinPath(p) : p \in RegPaths }

\* The nodes a list may be extended with: a registry node with one of the
\* paths, or a file node.
RegNodeShapes ==
    [label : RegLabels, type : {RegistryT}]
        \cup { [label |-> <<"h","\\","a">>, type |-> FileT] }

RegInit ==
    /\ CoreIdle
    /\ QueryIdle
    /\ AppIdle
    /\ CapIdle
    /\ RegIdle
    /\ ExtIdle

\* GraphLoader.mapNodes delivers one more node; ids are unique.
AddRegistryNode ==
    /\ netLabels = <<>>
    /\ Len(regNodes) < MaxRegNodes
    /\ \E shape \in RegNodeShapes :
          regNodes' = Append(regNodes, [id    |-> Digits(Len(regNodes) + 1),
                                        label |-> shape.label,
                                        type  |-> shape.type])
    /\ UNCHANGED <<optimizeRegistryPaths, registryPathMapping, selectedNodes,
                   netSelection, netLabels>>
    /\ UNCHANGED <<coreVars, queryVars, appVars, capVars, extVars>>

\* processNodeBatch: the label a node is given in the network.
displayLabel(node, registryOptimizationEnabled, mapping, selected) ==
    IF registryOptimizationEnabled /\ node.type = RegistryT
    THEN LET label == getRegistryLabel(node.id, mapping, node.id \in selected)
         IN  IF Truthy(label) THEN label.s ELSE node.label
    ELSE node.label

\* createNetworkVisualization(data): the mapping is rebuilt (or emptied when
\* the optimization is off), every node gets its display label and a new
\* network, in which nothing is selected, replaces the old one.
RenderRegistry ==
    /\ regNodes # <<>>
    /\ registryPathMapping' =
           IF optimizeRegistryPaths THEN createRegistryPathMapping(regNodes)
           ELSE <<>>
    /\ netLabels' =
           [id \in { regNodes[i].id : i \in 1..Len(regNodes) } |->
               displayLabel(CHOOSE node \in Range(regNodes) : node.id = id,
                            optimizeRegistryPaths, registryPathMapping',
                            selectedNodes)]
    /\ netSelection' = {}
    /\ UNCHANGED <<regNodes, optimizeRegistryPaths, selectedNodes>>
    /\ UNCHANGED <<coreVars, queryVars, appVars, capVars, extVars>>

FirstRender == netLabels = <<>> /\ RenderRegistry

RegNext == AddRegistryNode \/ FirstRender

SpecRegistry == RegInit /\ [][RegNext]_vars

\* The part of a shortened label after root\~\.
ShortSuffix(node, shortened) ==
    substring(shortened, Len(splitPath(node.label)[1]) + 3)

\* A prefix of k parts of the node's path that another registry node shares.
SharedPrefix(node, k) ==
    /\ k \in 1..Len(splitPath(node.label))
    /\ \E other \in Range(regNodes) :
          /\ other.id # node.id
          /\ other.type = RegistryT
          /\ Len(splitPath(other.label)) >= k
          /\ SubSeq(splitPath(other.label), 1, k) = SubSeq(splitPath(node.label), 1, k)

\* C15: in the mapping of every node list, the original label is the node's
\* label, and a shortened label that differs from it is root\~\suffix such
\* that a removed prefix (shared with another registry node), a backslash
\* and the suffix give the original label again.
RegistryLabelRoundTrip ==
    \A node \in Range(regNodes) :
        node.id \in DOMAIN registryPathMapping =>
            LET info == registryPathMapping[node.id]
                parts == splitPath(node.label)
            IN  /\ info.original = node.label
                /\ info.shortened # info.original =>
                      /\ startsWith(info.shortened,
                                    parts[1] \o <<Backslash, Tilde, Backslash>>)
                      /\ \E k \in 1..Len(parts) :
                            /\ SharedPrefix(node, k)
                            /\ joinPath(SubSeq(parts, 1, k)) \o <<Backslash>>
                                   \o ShortSuffix(node, info.shortened)
                               = node.label

\* C15 witness: a mapping with a node whose label was shortened.
RegistryLabelShortened ==
    \E id \in DOMAIN registryPathMapping :
        registryPathMapping[id].needsOptimization


(***************************************************************************)
(* Selection and registry labels: the handlers of the network's selection  *)
(* events, the Escape shortcut and the re-rendering of the view.           *)
(***************************************************************************)

\* The node lists of the selection machine: two registry nodes with a
\* common prefix of two parts, beside a file node or a third registry node,
\* two registry nodes under different roots, a common prefix of three parts,
\* and a path too short to be shortened.
SelectNodeLists ==
    LET Reg(i, path) == [id |-> Digits(i), label |-> joinPath(path), type |-> RegistryT]
        File(i, path) == [id |-> Digits(i), label |-> joinPath(path), type |-> FileT]
        h == <<"h">>
        k == <<"k">>
        a == <<"a">>
        b == <<"b">>
    IN  { << Reg(1, <<h, a, b, a>>), Reg(2, <<h, a, a, b>>), File(3, <<h, a>>) >>,
          << Reg(1, <<h, a, b, a, b>>), Reg(2, <<h, a, b, b>>), Reg(3, <<h, a, a, b>>) >>,
          << Reg(1, <<h, a, b, a>>), Reg(2, <<k, a, b, a>>) >>,
          << Reg(1, <<k, a, b, b, a>>), File(2, <<k, a>>), Reg(3, <<k, a, b, a, b>>) >>,
          << Reg(1, <<h, a, b>>), Reg(2, <<h, a, b, a>>), Reg(3, <<h, a, a, a>>) >> }

SelectInit ==
    /\ CoreIdle
    /\ QueryIdle
    /\ AppIdle
    /\ CapIdle
    /\ regNodes \in SelectNodeLists
    /\ optimizeRegistryPaths = TRUE
    /\ registryPathMapping = <<>>
    /\ selectedNodes = {}
    /\ netSelection = {}
    /\ netLabels = <<>>
    /\ ExtIdle

\* updateRegistryNodeLabels: with the optimization on, every node of the
\* mapping that is in the network gets the label getRegistryLabel gives for
\* the current selectedNodes.
updateRegistryNodeLabels(labels, enabled, mapping, selected) ==
    IF enabled /\ DOMAIN mapping # {}
    THEN [id \in DOMAIN labels |->
             LET currentLabel == getRegistryLabel(id, mapping, id \in selected)
             IN  IF Truthy(currentLabel) THEN currentLabel.s ELSE labels[id]]
    ELSE labels

\* network.on("deselectNode"): the previous selection leaves selectedNodes.
onDeselectNode(selected, previousSelection) == selected \ previousSelection

\* network.on("selectNode"): params.nodes join selectedNodes.
onSelectNode(selected, nodes) == selected \cup nodes

\* network.on("select"): selectedNodes becomes params.nodes.
onSelect(selected, nodes) == nodes

\* A click that changes the network's selection to newSelection: the
\* network emits deselectNode when nodes left the selection, selectNode
\* when nodes joined it, then select; each handler ends with
\* updateRegistryNodeLabels.
ClickSelects(newSelection) ==
    LET afterDeselect ==
            IF netSelection \ newSelection # {}
            THEN onDeselectNode(selectedNodes, netSelection)
            ELSE selectedNodes
        afterSelectNode ==
            IF newSelection \ netSelection # {}
            THEN onSelectNode(afterDeselect, newSelection)
            ELSE afterDeselect
        labels1 == IF netSelection \ newSelection # {}
                   THEN updateRegistryNodeLabels(netLabels, optimizeRegistryPaths,
                                                 registryPathMapping, afterDeselect)
                   ELSE netLabels
        labels2 == IF newSelection \ netSelection # {}
                   THEN updateRegistryNodeLabels(labels1, optimizeRegistryPaths,
                                                 registryPathMapping, afterSelectNode)
                   ELSE labels1
    IN  /\ netSelection' = newSelection
        /\ selectedNodes' = onSelect(afterSelectNode, newSelection)
        /\ netLabels' = updateRegistryNodeLabels(labels2, optimizeRegistryPaths,
                                                 registryPathMapping, selectedNodes')
        /\ UNCHANGED <<regNodes, optimizeRegistryPaths, registryPathMapping>>
        /\ UNCHANGED <<coreVars, queryVars, appVars, capVars, extVars>>

\* The analyst clicks the network: a node becomes the selection, or with
\* the multiselect key it is added to or taken from the selection; a click
\* on the empty canvas empties the selection.
Canvas == <<"c","a","n","v","a","s">>

ClickNetwork ==
    /\ netLabels # <<>>
    /\ \E target \in DOMAIN netLabels \cup {Canvas}, multiselect \in BOOLEAN :
          ClickSelects(IF target = Canvas THEN {}
                       ELSE IF ~multiselect THEN {target}
                       ELSE IF target \in netSelection THEN netSelection \ {target}
                       ELSE netSelection \cup {target})

\* handleKeyboardShortcuts, Escape: network.unselectAll() (which emits no
\* event) and selectedNodes.clear(); the labels are not updated.
PressEscape ==
    /\ netLabels # <<>>
    /\ netSelection' = {}
    /\ selectedNodes' = {}
    /\ UNCHANGED <<regNodes, optimizeRegistryPaths, registryPathMapping, netLabels>>
    /\ UNCHANGED <<coreVars, queryVars, appVars, capVars, extVars>>

\* onRegistryOptimizationToggle: the checkbox changes and the view is
\* rendered again.
ToggleRegistryOptimization ==
    /\ netLabels # <<>>
    /\ optimizeRegistryPaths' = ~optimizeRegistryPaths
    /\ registryPathMapping' =
           IF optimizeRegistryPaths' THEN createRegistryPathMapping(regNodes)
           ELSE <<>>
    /\ netLabels' =
           [id \in { regNodes[i].id : i \in 1..Len(regNodes) } |->
               displayLabel(CHOOSE node \in Range(regNodes) : node.id = id,
                            optimizeRegistryPaths', registryPathMapping',
                            selectedNodes)]
    /\ netSelection' = {}
    /\ UNCHANGED <<regNodes, selectedNodes>>
    /\ UNCHANGED <<coreVars, queryVars, appVars, capVars, extVars>>

SelectNext ==
    \/ RenderRegistry
    \/ ClickNetwork
    \/ PressEscape
    \/ ToggleRegistryOptimization

SpecSelect == SelectInit /\ [][SelectNext]_vars

\* C16: with the optimization on, every registry node of the mapping shows
\* its original label if it is in selectedNodes and its shortened label
\* otherwise.
RegistryLabelFollowsSelection ==
    (netLabels # <<>> /\ optimizeRegistryPaths) =>
        \A id \in DOMAIN registryPathMapping :
            netLabels[id] = IF id \in selectedNodes
                            THEN registryPathMapping[id].original
                            ELSE registryPathMapping[id].shortened

\* The same statement for the states in which the network's own selection
\* and selectedNodes agree and the last event was not Escape.
RegistryLabelFollowsClicks ==
    (netLabels # <<>> /\ optimizeRegistryPaths /\ selectedNodes # {}) =>
        \A id \in DOMAIN registryPathMapping :
            netLabels[id] = IF id \in selectedNodes
                            THEN registryPathMapping[id].original
                            ELSE registryPathMapping[id].shortened


\* The entry indices of the edges an output edge absorbed, in the order of
\* absorption, undefined ones included.
AbsorbedIndices(c) ==
    [i \in 1..Len(c.original_edges) |-> c.original_edges[i].entry_index]

\* n is the least element of the sequence s.
IsMinOf(n, s) == n \in Range(s) /\ \A x \in Range(s) : n <= x

\* C17 as stated: every edge combineEdgesByOperation returns has the least
\* of its entry_indices as entry_index, and its entry_indices are the entry
\* indices of the input edges it absorbed.
EntryIndexIsMinOfIndices ==
    op = "combine" =>
        \A j \in 1..Len(output) :
            /\ IsMinOf(output[j].entry_index, output[j].entry_indices)
            /\ output[j].entry_indices = AbsorbedIndices(output[j])

\* C17 amended: entry_indices are the entry indices of the absorbed edges
\* that have one; entry_index is their least, and is undefined when no
\* absorbed edge has an entry index.
EntryIndexIsMinOfDefinedIndices ==
    op = "combine" =>
        \A j \in 1..Len(output) :
            /\ output[j].entry_indices =
                   SeqFilter(AbsorbedIndices(output[j]), 1..MaxEntry)
            /\ IF output[j].entry_indices = <<>>
               THEN output[j].entry_index = Undefined
               ELSE IsMinOf(output[j].entry_index, output[j].entry_indices)

\* C17 witness: an output edge that absorbed several edges, the first of
\* which does not have the least entry index.
MergedEdgeTookLaterMinimum ==
    /\ op = "combine"
    /\ \E j \in 1..Len(output) :
          /\ output[j].combined_count > 1
          /\ output[j].original_edges[1].entry_index # Undefined
          /\ output[j].entry_index < output[j].original_edges[1].entry_index


\* C18: the list combineEdgesByOperation returns is in ascending order of
\* the effective entry index (entry_index, or Number.MAX_SAFE_INTEGER for an
\* edge without one), whatever the order of the input.
OutputSortedByEntryIndex ==
    op = "combine" =>
        \A i, j \in 1..Len(output) :
            i < j => SortKey(output[i]) <= SortKey(output[j])

\* C18 witness: two output edges whose first input edges arrived in the
\* opposite order of their entry indices.
OutputReordered ==
    /\ op = "combine"
    /\ Len(output) >= 2
    /\ \E i, j \in 1..Len(input) :
          /\ i < j
          /\ EdgeKey(input[i]) # EdgeKey(input[j])
          /\ input[j].entry_index # Undefined
          /\ SortKey(input[i]) > SortKey(input[j])
          /\ \A h \in 1..(j - 1) : EdgeKey(input[h]) = EdgeKey(input[i])


(***************************************************************************)
(* applyFilters with the consecutive toggle on.                            *)
(***************************************************************************)

\* applyFilters(data) in range mode with combine-consecutive-edges checked
\* and combine-edges checked or not.
ApplyFiltersConsecutive ==
    /\ op = "none"
    /\ \E combine \in BOOLEAN, start \in 1..MaxEntry :
       \E end \in {start, MaxEntry} :
          LET data == [nodes |-> DataNodes, edges |-> input, total_entries |-> MaxEntry]
              ui == [start |-> start, end |-> end, combine_edges |-> combine,
                     combine_consecutive |-> TRUE, node_types |-> AllShown]
          IN  /\ op' = "consecutive"
              /\ args' = [start |-> start, end |-> end, search |-> {},
                          combine_edges |-> combine]
              /\ kept' = WindowEdges(input, {}, start, end)
              /\ output' = applyFilters(data, {}, ui)
    /\ UNCHANGED <<input, queryVars, appVars, auxVars>>

RunsNext == AddEdge \/ ApplyFiltersConsecutive

SpecRuns == CoreInit /\ [][RunsNext]_vars

\* The original edges of a list of output edges, one after the other.
RECURSIVE AllOriginals(_)
AllOriginals(edges) ==
    IF edges = <<>> THEN <<>>
    ELSE Head(edges).original_edges \o AllOriginals(Tail(edges))

\* s is in chronological order: by effective entry index, and edges with
\* the same index in their order in the list they come from.
Chronological(s, from) ==
    \A i, j \in 1..Len(s) :
        i < j =>
            \/ SortKey(s[i]) < SortKey(s[j])
            \/ /\ SortKey(s[i]) = SortKey(s[j])
               /\ \E a, b \in 1..Len(from) : a < b /\ from[a] = s[i] /\ from[b] = s[j]

NodeCollections == { SeqFilter(DataNodes, keep) : keep \in SUBSET Range(DataNodes) }

\* applyFilters(data) over the whole range, for a dataset with the node
\* collection nodes.
ApplyFiltersOnNodes ==
    /\ op = "none"
    /\ \E nodes \in NodeCollections, combine \in BOOLEAN :
          LET data == [nodes |-> nodes, edges |-> input, total_entries |-> MaxEntry]
              ui == [start |-> 1, end |-> MaxEntry, combine_edges |-> combine,
                     combine_consecutive |-> FALSE, node_types |-> AllShown]
          IN  /\ op' = "nodes"
              /\ args' = [start |-> 1, end |-> MaxEntry, search |-> {},
                          combine_edges |-> combine, nodes |-> nodes]
              /\ kept' = WindowEdges(input, {}, 1, MaxEntry)
              /\ output' = applyFilters(data, {}, ui)
    /\ UNCHANGED <<input, queryVars, appVars, auxVars>>

DanglingNext == AddEdge \/ ApplyFiltersOnNodes

SpecDangling == CoreInit /\ [][DanglingNext]_vars

\* The ids of a node list.
IdsOf(nodes) == { nodes[i].id : i \in 1..Len(nodes) }

\* C20: no edge applyFilters returns has an endpoint that is absent from the
\* node collection of the dataset, and every edge it returns has both
\* endpoints among the nodes it returns.
DanglingEdgesOmitted ==
    op = "nodes" =>
        \A e \in Range(output.edges) :
            /\ e.src \in IdsOf(args.nodes) /\ e.dst \in IdsOf(args.nodes)
            /\ e.src \in IdsOf(output.nodes) /\ e.dst \in IdsOf(output.nodes)

\* The part of the statement that holds: with every endpoint in the node
\* collection, the returned edges have their endpoints among the returned
\* nodes.
EndpointsReturnedWhenPresent ==
    (op = "nodes" /\ args.nodes = DataNodes) =>
        \A e \in Range(output.edges) :
            e.src \in IdsOf(output.nodes) /\ e.dst \in IdsOf(output.nodes)


(***************************************************************************)
(* applyFilters and buildSearchIndex on a dataset that lacks one of its    *)
(* collections.                                                            *)
(***************************************************************************)

\* A dataset object: has_nodes / has_edges tell whether the property is
\* there at all (data.nodes / data.edges is undefined when it is not).
Dataset(hasNodes, hasEdges, nodes, edges) ==
    [has_nodes |-> hasNodes, nodes |-> IF hasNodes THEN nodes ELSE <<>>,
     has_edges |-> hasEdges, edges |-> IF hasEdges THEN edges ELSE <<>>,
     total_entries |-> MaxEntry]

\* The two ways a call ends: a TypeError propagates to the caller ("Cannot
\* read properties of undefined"), or the function returns a value.
Raised(line) == [raised |-> TRUE, line |-> line, value |-> <<>>]
Returned(value) == [raised |-> FALSE, line |-> 0, value |-> value]

\* DataFilters.applyFilters(data, searchEntryIndices) on a dataset object:
\* data.edges.filter is evaluated first (line 68 with search indices, line 78
\* without), data.nodes.filter after the edges were combined (line 112);
\* neither dereference is guarded.
applyFiltersOnDataset(data, searchIndices, ui) ==
    IF ~data.has_edges
    THEN Raised(IF searchIndices # {} THEN 68 ELSE 78)
    ELSE IF ~data.has_nodes
    THEN Raised(112)
    ELSE Returned(applyFilters(data, searchIndices, ui))

\* buildSearchIndex(data) on a dataset object: data.nodes.forEach (line 917)
\* and then data.edges.forEach (line 935), neither guarded.
buildSearchIndexOnDataset(data) ==
    IF ~data.has_nodes
    THEN Raised(917)
    ELSE IF ~data.has_edges
    THEN Raised(935)
    ELSE Returned(buildSearchIndex(data))

\* applyFilters is called on a dataset made of the edges assembled so far.
ApplyFiltersOnDataset ==
    /\ op = "none"
    /\ \E hasNodes \in BOOLEAN, hasEdges \in BOOLEAN, search \in {{}, {1}},
          combine \in BOOLEAN :
          LET data == Dataset(hasNodes, hasEdges, DataNodes, input)
              ui == [start |-> 1, end |-> MaxEntry, combine_edges |-> combine,
                     combine_consecutive |-> FALSE, node_types |-> AllShown]
          IN  /\ op' = "filter_dataset"
              /\ args' = [start |-> 1, end |-> MaxEntry, search |-> search,
                          combine_edges |-> combine,
                          has_nodes |-> hasNodes, has_edges |-> hasEdges]
              /\ kept' = IF hasEdges THEN WindowEdges(input, search, 1, MaxEntry) ELSE <<>>
              /\ output' = applyFiltersOnDataset(data, search, ui)
    /\ UNCHANGED <<input, queryVars, appVars, auxVars>>

\* buildSearchIndex is called on a dataset made of the edges assembled so far.
BuildSearchIndexOnDataset ==
    /\ op = "none"
    /\ \E hasNodes \in BOOLEAN, hasEdges \in BOOLEAN :
          LET data == Dataset(hasNodes, hasEdges, DataNodes, input)
          IN  /\ op' = "index_dataset"
              /\ args' = [start |-> 1, end |-> MaxEntry, search |-> {},
                          combine_edges |-> FALSE,
                          has_nodes |-> hasNodes, has_edges |-> hasEdges]
              /\ output' = buildSearchIndexOnDataset(data)
    /\ UNCHANGED <<input, kept, queryVars, appVars, auxVars>>

MissingNext == AddEdge \/ ApplyFiltersOnDataset \/ BuildSearchIndexOnDataset

SpecMissing == CoreInit /\ [][MissingNext]_vars

\* C21: for a dataset that lacks its nodes collection or its edges
\* collection, applyFilters and buildSearchIndex return a value (an empty or
\* partial result) and no exception reaches the caller.
NoFatalErrorOnMissingCollection ==
    (op \in {"filter_dataset", "index_dataset"} /\ ~(args.has_nodes /\ args.has_edges))
        => ~output.raised

\* What does hold: with both collections present the two functions return.
CompleteDatasetReturns ==
    (op \in {"filter_dataset", "index_dataset"} /\ args.has_nodes /\ args.has_edges)
        => ~output.raised


(***************************************************************************)
(* applyFilters on a dataset that carries sequence groups, and the edge    *)
(* colouring that reads them.                                              *)
(***************************************************************************)

\* The positions of the confidence slider (a percentage) and the
\* confidences of sequence groups, in hundredths.
SliderValues == {0, 50}
ConfidenceValues == {30, 50}

DefaultGray == "#848484"

\* A sequence group; its edges are (src, dst, key) triples.  The edges of
\* the model, like the ones mapEdges makes, have no key property.
SequenceGroup(name, confidence, color) ==
    [pattern_name |-> name, confidence |-> confidence, pattern_color |-> color,
     edges |-> { <<NodeA, NodeAA, Undefined>> }]

\* The sequence_groups objects of the model's datasets, as the list of
\* their values in property order.
SequenceGroupLists ==
    { <<>> } \cup
    { << SequenceGroup("g1", c, "red") >> : c \in ConfidenceValues } \cup
    { << SequenceGroup("g1", c, "red"), SequenceGroup("g2", d, "blue") >> :
        c \in ConfidenceValues, d \in ConfidenceValues }

\* DataFilters.applyFilters on a dataset with sequence groups: the slider is
\* read (line 58) and reported in filters_applied (line 144); the groups
\* reach the result through the spread of data (line 136).
applyFiltersWithGroups(data, searchIndices, ui) ==
    LET r == applyFilters(data, searchIndices, ui)
    IN  [nodes |-> r.nodes,
         edges |-> r.edges,
         total_entries |-> r.total_entries,
         sequence_groups |-> data.sequence_groups,
         filters_applied |->
            [entry_range   |-> r.filters_applied.entry_range,
             search_active |-> r.filters_applied.search_active,
             combine_edges |-> r.filters_applied.combine_edges,
             node_types    |-> r.filters_applied.node_types,
             sequence_grouping |-> ui.sequence_grouping,
             confidence_threshold |-> ui.confidence_slider]]

\* group.edges.some(([src, dst, key]) => src === e.src && dst === e.dst &&
\* key == e.key) for an edge without a key property.
InGroup(group, e) ==
    \E t \in group.edges : t[1] = e.src /\ t[2] = e.dst /\ t[3] = Undefined

\* The first group of the list that claims the edge, 0 if none does.
FirstGroupOf(groups, edge) ==
    LET claims(g) == IF edge.is_combined
                     THEN \E o \in Range(edge.original_edges) : InGroup(g, o)
                     ELSE InGroup(g, edge)
        hits == { i \in 1..Len(groups) : claims(groups[i]) }
    IN  IF hits = {} THEN 0 ELSE SetMin(hits)

\* Visualization.getEdgeColor(edge, data) with the sequence-grouping box
\* checked or not; the model's edges carry no sequence_color.
getEdgeColorOfGroups(edge, data, grouping) ==
    IF grouping /\ FirstGroupOf(data.sequence_groups, edge) # 0
    THEN data.sequence_groups[FirstGroupOf(data.sequence_groups, edge)].pattern_color
    ELSE DefaultGray

\* applyFilters on a dataset with sequence groups, followed by the colouring
\* of the returned edges.
ApplyFiltersWithGroups ==
    /\ op = "none"
    /\ \E groups \in SequenceGroupLists, slider \in SliderValues,
          combine \in BOOLEAN, grouping \in BOOLEAN :
          LET data == [nodes |-> DataNodes, edges |-> input, total_entries |-> MaxEntry,
                       sequence_groups |-> groups]
              ui == [start |-> 1, end |-> MaxEntry, combine_edges |-> combine,
                     combine_consecutive |-> FALSE, node_types |-> AllShown,
                     sequence_grouping |-> grouping, confidence_slider |-> slider]
              filtered == applyFiltersWithGroups(data, {}, ui)
          IN  /\ op' = "groups"
              /\ args' = [start |-> 1, end |-> MaxEntry, search |-> {},
                          combine_edges |-> combine, sequence_grouping |-> grouping,
                          confidence_slider |-> slider]
              /\ kept' = [j \in 1..Len(filtered.edges) |->
                             getEdgeColorOfGroups(filtered.edges[j] @@ [is_combined |-> FALSE],
                                          filtered, grouping)]
              /\ output' = filtered
    /\ UNCHANGED <<input, queryVars, appVars, auxVars>>

ConfidenceNext == AddEdge \/ ApplyFiltersWithGroups

SpecConfidence == CoreInit /\ [][ConfidenceNext]_vars

\* C22: every sequence group in the data applyFilters returns has a
\* confidence of at least the slider's threshold, and so no returned edge is
\* coloured by a group below the threshold.
GroupsMeetConfidenceThreshold ==
    op = "groups" =>
        /\ \A i \in 1..Len(output.sequence_groups) :
              output.sequence_groups[i].confidence >= args.confidence_slider
        /\ \A j \in 1..Len(output.edges) :
              \A i \in 1..Len(output.sequence_groups) :
                 kept[j] = output.sequence_groups[i].pattern_color
                    => output.sequence_groups[i].confidence >= args.confidence_slider

\* What does hold: the threshold is reported with the result, and the groups
\* are those of the dataset.
ThresholdOnlyReported ==
    op = "groups" =>
        output.filters_applied.confidence_threshold = args.confidence_slider


(***************************************************************************)
(* Singleton groups of combineEdgesByOperation.                            *)
(***************************************************************************)

\* The (src, dst, operation) key of an edge as a triple.
TripleOf(e) == <<e.src, e.dst, e.operation>>

\* The positions of the input edges whose triple no other input edge has.
SingletonInputs ==
    { i \in 1..Len(input) :
        \A k \in 1..Len(input) : TripleOf(input[k]) = TripleOf(input[i]) => k = i }

\* The output edges that hold the input edge e.
OutputsOf(e) == { j \in 1..Len(output) : e \in Range(output[j].original_edges) }

\* C23: an input edge whose (src, dst, operation) key occurs once is emitted
\* with is_combined = false and with its id, src, dst, operation and
\* entry_index as they were in the input.
SingletonEmittedUnchanged ==
    op = "combine" =>
        \A i \in SingletonInputs :
            \A j \in OutputsOf(input[i]) :
                /\ output[j].is_combined = FALSE
                /\ output[j].id = input[i].id
                /\ output[j].src = input[i].src
                /\ output[j].dst = input[i].dst
                /\ output[j].operation = input[i].operation
                /\ output[j].entry_index = input[i].entry_index

\* What does hold: an input edge whose key string occurs once is emitted
\* with is_combined = false, count 1 and its src, dst, operation and
\* entry_index as they were; its id is the key string.
SingletonKeepsAllButId ==
    op = "combine" =>
        \A i \in 1..Len(input) :
            (\A k \in 1..Len(input) : EdgeKey(input[k]) = EdgeKey(input[i]) => k = i)
            => \A j \in OutputsOf(input[i]) :
                /\ output[j].is_combined = FALSE
                /\ output[j].combined_count = 1
                /\ output[j].original_edges = <<input[i]>>
                /\ output[j].id = EdgeKey(input[i])
                /\ output[j].src = input[i].src
                /\ output[j].dst = input[i].dst
                /\ output[j].operation = input[i].operation
                /\ output[j].entry_index = input[i].entry_index


(***************************************************************************)
(* Which candidate prefix shortens a registry label.                       *)
(***************************************************************************)

\* The number of leading parts two paths share, the last part of the
\* shorter path not counted.
PairPrefixLength(p, q) ==
    SetMax({ k \in 0..(MathMin(Len(p), Len(q)) - 1) : SubSeq(p, 1, k) = SubSeq(q, 1, k) })

\* The lengths of the candidate prefixes of a registry node: the prefixes of
\* at least two parts it shares with another registry node of its root key.
CandidateLengths(node) ==
    { k \in 2..Len(splitPath(node.label)) :
        \E other \in Range(regNodes) :
            /\ other.id # node.id
            /\ other.type = RegistryT
            /\ splitPath(other.label)[1] = splitPath(node.label)[1]
            /\ PairPrefixLength(splitPath(node.label), splitPath(other.label)) = k }

\* The label a node has when the candidates of the lengths in qualifying
\* are the ones that apply to it.
LabelByLongest(node, qualifying) ==
    IF qualifying = {} THEN node.label
    ELSE LET parts == splitPath(node.label)
         IN  parts[1] \o <<Backslash, Tilde, Backslash>>
                 \o joinPath(SubSeq(parts, SetMax(qualifying) + 1, Len(parts)))

\* C24: a registry node is shortened by its longest candidate prefix than
\* which it has strictly more parts, and keeps its label only when it has no
\* such candidate.
ShortenedByLongestShorterCandidate ==
    \A node \in Range(regNodes) :
        node.id \in DOMAIN registryPathMapping =>
            registryPathMapping[node.id].shortened =
                LabelByLongest(node, { k \in CandidateLengths(node) :
                                         Len(splitPath(node.label)) > k })

\* C24 as the code has it: a registry node is shortened by its longest
\* candidate prefix than which it has at least two more parts, and keeps its
\* label only when it has no such candidate.
ShortenedByLongestCandidateLeavingTwo ==
    \A node \in Range(regNodes) :
        node.id \in DOMAIN registryPathMapping =>
            registryPathMapping[node.id].shortened =
                LabelByLongest(node, { k \in CandidateLengths(node) :
                                         Len(splitPath(node.label)) > k + 1 })

\* C24 witness: a node with candidates of two and of three parts was
\* shortened by the one of two parts, the longer one leaving it a single
\* part.
LongestCandidateSkipped ==
    \E node \in Range(regNodes) :
        /\ node.id \in DOMAIN registryPathMapping
        /\ CandidateLengths(node) = {2, 3}
        /\ Len(splitPath(node.label)) = 4
        /\ registryPathMapping[node.id].shortened =
               LabelByLongest(node, {2})

\* A node with two applicable candidates was shortened by the longer one.
LongerCandidateChosen ==
    \E node \in Range(regNodes) :
        /\ node.id \in DOMAIN registryPathMapping
        /\ CandidateLengths(node) = {2, 3}
        /\ Len(splitPath(node.label)) = 5
        /\ registryPathMapping[node.id].shortened = LabelByLongest(node, {3})


(***************************************************************************)
(* processNodesProgressively / processEdgesProgressively: the batch loop   *)
(* and its yields to the event loop.                                       *)
(***************************************************************************)
MaxBatches == 7

\* BATCH_SIZE of the two functions, and after how many batches the loop
\* yields: i % (BATCH_SIZE * 5) === 0 for nodes, i % (BATCH_SIZE * 3) === 0
\* for edges.
NodeBatchSize == 100
EdgeBatchSize == 200
NodeYieldEvery == 5
EdgeYieldEvery == 3

BatchSize(kind) == IF kind = "nodes" THEN NodeBatchSize ELSE EdgeBatchSize
YieldEvery(kind) == IF kind = "nodes" THEN NodeYieldEvery ELSE EdgeYieldEvery

\* The lengths of the collections: whole batches, and one item more.
CollectionSizes(kind) ==
    { k * BatchSize(kind) + r : k \in 0..MaxBatches, r \in {0, 1} }

\* The collection of n items; an item is known by its position.
Collection(kind, n) ==
    [k \in 1..n |-> IF kind = "nodes"
                    THEN [id |-> k, type |-> ProcessT]
                    ELSE [id |-> k]]

\* processNodeBatch / processEdgeBatch: Array.prototype.map over the batch.
processBatch(kind, batch) ==
    [k \in 1..Len(batch) |-> IF kind = "nodes" THEN processNode(batch[k])
                             ELSE processEdge(batch[k])]

\* The function is called.  A collection of at most one batch is processed
\* at once and returned; otherwise the loop starts with i = 0.
CallProgressively ==
    /\ progPc = "idle"
    /\ \E kind \in {"nodes", "edges"} :
       \E n \in CollectionSizes(kind) :
          /\ progKind' = kind
          /\ progItems' = Collection(kind, n)
          /\ progIndex' = 0
          /\ IF n <= BatchSize(kind)
             THEN /\ progResults' = processBatch(kind, Collection(kind, n))
                  /\ progPc' = "done"
             ELSE /\ progResults' = <<>>
                  /\ progPc' = "loop"
          /\ progSinceYield' = 0
    /\ UNCHANGED <<coreVars, queryVars, appVars, capVars, regVars, debVars, navVars>>

\* One iteration of the loop up to its await or its end: the batch at i is
\* sliced, processed and appended; when i is a positive multiple of the
\* yield period the function awaits a zero timeout, otherwise the next
\* iteration follows in the same task.
ProcessOneBatch ==
    /\ progPc = "loop"
    /\ progIndex < Len(progItems)
    /\ LET batch == slice(progItems, progIndex,
                          MathMin(progIndex + BatchSize(progKind), Len(progItems)))
       IN  progResults' = progResults \o processBatch(progKind, batch)
    /\ progPc' = IF progIndex % (BatchSize(progKind) * YieldEvery(progKind)) = 0
                    /\ progIndex > 0
                 THEN "await" ELSE "loop"
    /\ progIndex' = progIndex + BatchSize(progKind)
    /\ progSinceYield' = progSinceYield + 1
    /\ UNCHANGED <<progKind, progItems>>
    /\ UNCHANGED <<coreVars, queryVars, appVars, capVars, regVars, debVars, navVars>>

\* The timeout fires: the event loop hands control back to the function.
ResumeAfterYield ==
    /\ progPc = "await"
    /\ progPc' = "loop"
    /\ progSinceYield' = 0
    /\ UNCHANGED <<progKind, progItems, progIndex, progResults>>
    /\ UNCHANGED <<coreVars, queryVars, appVars, capVars, regVars, debVars, navVars>>

\* The loop condition fails: results is returned.
ReturnResults ==
    /\ progPc = "loop"
    /\ progIndex >= Len(progItems)
    /\ progPc' = "done"
    /\ UNCHANGED <<progKind, progItems, progIndex, progResults, progSinceYield>>
    /\ UNCHANGED <<coreVars, queryVars, appVars, capVars, regVars, debVars, navVars>>

ProgNext == CallProgressively \/ ProcessOneBatch \/ ResumeAfterYield \/ ReturnResults

SpecProgressive == CoreInit /\ [][ProgNext]_vars

\* The list returned has the length and the order of the collection.
SameLengthAndOrder ==
    /\ Len(progResults) = Len(progItems)
    /\ \A k \in 1..Len(progItems) : progResults[k].id = progItems[k].id

\* C25: for a collection larger than one batch, control is yielded to the
\* event loop after each batch before the next one starts (never two
\* batches without a yield between them), a batch starts only when the
\* results of the batches before it are appended, and the list returned has
\* the length and the order of the collection.
YieldsAfterEachBatch ==
    /\ progSinceYield <= 1
    /\ progPc \in {"loop", "await"} =>
          Len(progResults) = MathMin(progIndex, Len(progItems))
    /\ progPc = "done" => SameLengthAndOrder

\* What does hold: batches are appended one after the other, the list
\* returned has the length and the order of the collection, and at most
\* YieldEvery + 1 batches run without a yield.
BatchesInOrder ==
    /\ progPc \in {"loop", "await"} =>
          Len(progResults) = MathMin(progIndex, Len(progItems))
    /\ progPc = "done" => SameLengthAndOrder
    /\ progSinceYield <= YieldEvery(progKind) + 1


(***************************************************************************)
(* The entry indices applied to the window after a search.                 *)
(***************************************************************************)

\* The entry indices updateVisualization hands to applyFilters.
AppliedSearchIndices == IF searchFilterActive THEN searchEntryIndices ELSE {}

\* The entry indices of the edges the last search matched, as the backend
\* or the local fallback finds them.
IndicesOfLastSearch ==
    { matchingEntryIndices(ServerMatches(lastSearch)),
      matchingEntryIndices(performLocalSearch(currentData, lastSearch)) }

\* C26: once a search has completed, the entry indices applied to the
\* window in search mode are those of the edges that search matched; a
\* search that matched no edge leaves no index of an earlier search applied.
SearchWindowOfLatestSearch ==
    (Idle /\ isSearchActive /\ lastSearch # <<>>) =>
        AppliedSearchIndices \in IndicesOfLastSearch

\* What does hold: a search that matched an edge has its own indices
\* applied.
SearchWithEdgesOwnsWindow ==
    (Idle /\ isSearchActive /\ lastSearch # <<>>
          /\ \A s \in IndicesOfLastSearch : s # {}) =>
        AppliedSearchIndices \in IndicesOfLastSearch


(***************************************************************************)
(* The search box: input events, the debounce timer, Enter and Escape.     *)
(* No graph is loaded, so performSearch runs its local search on the       *)
(* empty index and finds nothing.                                          *)
(***************************************************************************)
MaxTimers == 4

\* String.prototype.trim over the space character.
RECURSIVE trimStart(_)
trimStart(s) == IF s # <<>> /\ Head(s) = " " THEN trimStart(Tail(s)) ELSE s

RECURSIVE trimEnd(_)
trimEnd(s) ==
    IF s # <<>> /\ s[Len(s)] = " " THEN trimEnd(SubSeq(s, 1, Len(s) - 1)) ELSE s

trim(s) == trimEnd(trimStart(s))

\* What the analyst may have in the search box: nothing, one character,
\* two blanks, and queries of two and more characters, one in upper case
\* and one between blanks.
TypedQueries == { <<>>, <<"c">>, <<" ", " ">>, <<"c","m">>, <<"C","m","d">>,
                  <<"o","p">>, <<"o","p",":">>, <<" ","c","m"," ">> }

\* The part of the application the search box acts on.
searchBoxVars == <<isSearchActive, currentSearchTerm, searchResults, disabled,
                   searchFilterActive, searchEntryIndices, inputValue, cleared>>

\* clearSearch() without a graph: results, term and flag are reset, the box
\* is emptied, the range controls are enabled and the app's search filter
\* is dropped.  The timer is not touched.
clearSearchBox ==
    /\ searchResults' = {}
    /\ currentSearchTerm' = <<>>
    /\ isSearchActive' = FALSE
    /\ inputValue' = <<>>
    /\ disabled' = toggleRangeControls(TRUE)
    /\ searchFilterActive' = FALSE
    /\ searchEntryIndices' = {}
    /\ cleared' = TRUE

\* performSearch(q) without a graph: a blank query clears; any other makes
\* the search active, and the local search on the empty index adds no
\* result and disables the range controls.
performSearchBox(q, entered) ==
    IF q = <<>> \/ trim(q) = <<>>
    THEN clearSearchBox
    ELSE /\ currentSearchTerm' = toLowerCase(trim(q))
         /\ searchResults' = {}
         /\ isSearchActive' = TRUE
         /\ disabled' = toggleRangeControls(FALSE)
         /\ cleared' = IF entered THEN FALSE ELSE cleared
         /\ UNCHANGED <<inputValue, searchFilterActive, searchEntryIndices>>

\* The untouched rest of the state.
SearchBoxFrame ==
    UNCHANGED <<currentData, entryStart, entryEnd, combineEdges, searchMode,
                network, pendingLoads, pendingSearches, getCopies, lastLoad,
                lastLoadFailed, lastSearch, preSearch, preClear,
                coreVars, queryVars, capVars, regVars, progVars, navVars>>

\* The input event: the box holds q and handleSearchInput(q) runs.  The
\* timer of the stored handle is cleared; an empty box clears the search, a
\* single character does nothing more, anything longer sets a new timer.
HandleSearchInput ==
    /\ \E q \in TypedQueries \ {inputValue} :
          LET others == { t \in pendingTimers : t.handle # searchTimeout }
          IN  IF Len(q) = 0
              THEN /\ clearSearchBox
                   /\ pendingTimers' = others
                   /\ UNCHANGED <<searchTimeout, timersSet>>
              ELSE /\ inputValue' = q
                   /\ currentSearchTerm' = trim(q)
                   /\ cleared' = FALSE
                   /\ UNCHANGED <<isSearchActive, searchResults, disabled,
                                  searchFilterActive, searchEntryIndices>>
                   /\ IF Len(q) < 2
                      THEN /\ pendingTimers' = others
                           /\ UNCHANGED <<searchTimeout, timersSet>>
                      ELSE /\ timersSet < MaxTimers
                           /\ timersSet' = timersSet + 1
                           /\ searchTimeout' = timersSet + 1
                           /\ pendingTimers' =
                                  others \cup {[handle |-> timersSet + 1, query |-> q]}
    /\ SearchBoxFrame

\* A timer's delay has passed: its callback runs performSearch(query) with
\* the query of the input event that set it.
DebounceFires ==
    /\ \E t \in pendingTimers :
          /\ pendingTimers' = pendingTimers \ {t}
          /\ performSearchBox(t.query, FALSE)
    /\ UNCHANGED <<searchTimeout, timersSet>>
    /\ SearchBoxFrame

\* The Enter key in the box or the search button: performSearch(value).
PressEnter ==
    /\ performSearchBox(inputValue, TRUE)
    /\ UNCHANGED <<searchTimeout, pendingTimers, timersSet>>
    /\ SearchBoxFrame

\* The Escape key in the box or the clear button: clearSearch().
PressEscapeInBox ==
    /\ clearSearchBox
    /\ UNCHANGED <<searchTimeout, pendingTimers, timersSet>>
    /\ SearchBoxFrame

DebounceNext == HandleSearchInput \/ DebounceFires \/ PressEnter \/ PressEscapeInBox

SpecDebounce == CoreInit /\ [][DebounceNext]_vars

\* C27: after clearSearch the search is inactive until a new query is
\* entered, so no debounced search set before the clear runs after it, and
\* at most one debounced search is pending at any time.
ClearedSearchStaysCleared ==
    /\ cleared => ~isSearchActive
    /\ Cardinality(pendingTimers) <= 1

\* What does hold: at most one debounced search is pending, it is the one
\* of the stored handle, and emptying the box leaves none.
AtMostOneDebouncedSearch ==
    /\ Cardinality(pendingTimers) <= 1
    /\ \A t \in pendingTimers : t.handle = searchTimeout


(***************************************************************************)
(* Window navigation: loads, the two range inputs, Last and Next, with the *)
(* total_entries loadGraph stores for the loaded window.                   *)
(***************************************************************************)

\* The analyst stops clicking Next once the window ends at or after this entry.
MaxWindowEnd == 5

\* The entry_count the graph object may carry: none, zero, or the number of
\* entries of the dataset.
EntryCounts == {Undefined, 0, TotalEntries}

\* hasValidTotalEntries: Number(entry_count) is finite and positive.
hasValidTotalEntries(entryCount) == entryCount # Undefined /\ entryCount > 0

\* total_entries of the object loadGraph stores: the graph's entry count if
\* valid, else the size of the requested window.
total_entries(entryCount, fromEntry, toEntry) ==
    IF hasValidTotalEntries(entryCount) THEN entryCount
    ELSE toEntry - fromEntry + 1

\* updateWindowNavigationButtons() with maxEntries = currentData.total_entries.
updateWindowButtons(d, cd, start, end, maxEntries) ==
    IF ~cd.loaded
    THEN [d EXCEPT !["last-window-btn"] = TRUE, !["next-window-btn"] = TRUE]
    ELSE [d EXCEPT !["last-window-btn"] = ~(start > 1),
                   !["next-window-btn"] = ~(end < maxEntries)]

\* navigateToNextWindow of the variant that computes the end without the
\* minimum.
NextWindowUnclamped(start, end, maxEntries) ==
    LET windowSize == end - start + 1
        newStart == end + 1
        newEnd == newStart + windowSize - 1
    IN  IF newStart > maxEntries THEN <<start, end>> ELSE <<newStart, newEnd>>

\* navigateToNextWindow: the window it writes into the inputs, or the
\* window as it is when it returns early.
NextWindow(start, end, maxEntries) ==
    LET windowSize == end - start + 1
        newStart == end + 1
        newEnd == MathMin(maxEntries, newStart + windowSize - 1)
    IN  IF newStart > maxEntries THEN <<start, end>> ELSE <<newStart, newEnd>>

\* navigateToLastWindow, likewise.
LastWindow(start, end) ==
    LET windowSize == end - start + 1
        newEnd == start - 1
        newStart == MathMax(1, newEnd - windowSize + 1)
    IN  IF newStart < 1 \/ newEnd < 1 THEN <<start, end>> ELSE <<newStart, newEnd>>

\* What the navigation machine leaves alone.
NavFrame ==
    UNCHANGED <<combineEdges, getCopies, searchVars, preSearch, preClear,
                coreVars, queryVars, capVars, regVars, progVars, debVars>>

\* The backend holds a graph; its metadata has an entry count or not.
ServeGraph ==
    /\ ~graphObj.known
    /\ \E c \in EntryCounts : graphObj' = [known |-> TRUE, entry_count |-> c]
    /\ UNCHANGED <<currentData, entryStart, entryEnd, disabled, network, loadVars,
                   totalEntries, lastNav>>
    /\ NavFrame

\* The Load button: the default window is requested.
NavClickLoad ==
    /\ graphObj.known
    /\ pendingLoads = {}
    /\ StartLoad(1, loadGraphDefaultTo)
    /\ UNCHANGED <<currentData, entryStart, entryEnd, disabled, network,
                   graphObj, totalEntries, lastNav>>
    /\ NavFrame

\* The analyst types a value into entry-start or entry-end that keeps the
\* range in order; the input listener updates the window buttons.
NavTypeRange ==
    /\ pendingLoads = {}
    /\ \E v \in 1..TotalEntries :
          \/ /\ ~disabled["entry-start"]
             /\ v # entryStart /\ v <= entryEnd
             /\ entryStart' = v
             /\ disabled' = updateWindowButtons(disabled, currentData, v, entryEnd,
                                                totalEntries)
             /\ UNCHANGED entryEnd
          \/ /\ ~disabled["entry-end"]
             /\ v # entryEnd /\ v >= entryStart
             /\ entryEnd' = v
             /\ disabled' = updateWindowButtons(disabled, currentData, entryStart, v,
                                                totalEntries)
             /\ UNCHANGED entryStart
    /\ UNCHANGED <<currentData, network, loadVars, graphObj, totalEntries, lastNav>>
    /\ NavFrame

\* The Apply Range button.
NavClickApply ==
    /\ graphObj.known
    /\ pendingLoads = {}
    /\ ~disabled["apply-range-btn"]
    /\ StartLoad(entryStart, entryEnd)
    /\ UNCHANGED <<currentData, entryStart, entryEnd, disabled, network,
                   graphObj, totalEntries, lastNav>>
    /\ NavFrame

\* The backend answers a load: loadGraph stores the window with its
\* total_entries, the inputs are set to the window, the view is rendered
\* and the window buttons are updated.
NavLoadResponds ==
    /\ \E w \in pendingLoads :
          LET total == total_entries(graphObj.entry_count, w.from, w.to)
          IN  /\ pendingLoads' = pendingLoads \ {w}
              /\ currentData' = Loaded(w.from, w.to)
              /\ totalEntries' = total
              /\ entryStart' = w.from
              /\ entryEnd' = w.to
              /\ network' = createNetworkVisualization(
                                FilteredData(Loaded(w.from, w.to), searchFilterActive,
                                             searchEntryIndices, w.from, w.to,
                                             combineEdges))
              /\ disabled' = updateWindowButtons(disabled, Loaded(w.from, w.to),
                                                 w.from, w.to, total)
    /\ UNCHANGED <<lastLoad, lastLoadFailed, graphObj, lastNav>>
    /\ NavFrame

\* A click on a window button: the handler computes the window, and unless
\* it returns early it writes the inputs and requests the load.
Navigate(kind, window) ==
    /\ currentData.loaded
    /\ lastNav' = [kind |-> kind, start |-> entryStart, end |-> entryEnd,
                   total |-> totalEntries,
                   newStart |-> window[1], newEnd |-> window[2]]
    /\ entryStart' = window[1]
    /\ entryEnd' = window[2]
    /\ IF window = <<entryStart, entryEnd>>
       THEN UNCHANGED loadVars
       ELSE StartLoad(window[1], window[2])
    /\ UNCHANGED <<currentData, disabled, network, graphObj, totalEntries>>
    /\ NavFrame

NavClickNext ==
    /\ ~disabled["next-window-btn"]
    /\ entryEnd < MaxWindowEnd
    /\ Navigate("next", NextWindow(entryStart, entryEnd, totalEntries))

NavClickLast ==
    /\ ~disabled["last-window-btn"]
    /\ Navigate("last", LastWindow(entryStart, entryEnd))

NavNext ==
    \/ ServeGraph \/ NavClickLoad \/ NavTypeRange \/ NavClickApply
    \/ NavLoadResponds \/ NavClickNext \/ NavClickLast

SpecNavigate == AppInit /\ [][NavNext]_vars

\* A window is loaded, shown in the inputs, and no load is in flight.
WindowShown ==
    /\ currentData.loaded
    /\ pendingLoads = {}
    /\ entryStart = currentData.from
    /\ entryEnd = currentData.to
    /\ 1 <= entryStart /\ entryStart <= entryEnd

\* C28: whenever the window shown ends before the last entry of the
\* dataset, the Next button is enabled and navigateToNextWindow moves to the
\* window that starts after it, so that repeating Next reaches the last
\* entry.
NextReachesWholeDataset ==
    (WindowShown /\ entryEnd < TotalEntries) =>
        /\ ~disabled["next-window-btn"]
        /\ NextWindow(entryStart, entryEnd, totalEntries)[1] = entryEnd + 1
        /\ NextWindow(entryStart, entryEnd, totalEntries)[2] > entryEnd

\* What does hold: the same when the graph object carries the entry count
\* of the dataset.
NextReachesWithEntryCount ==
    (WindowShown /\ entryEnd < TotalEntries /\ graphObj.entry_count = TotalEntries) =>
        /\ ~disabled["next-window-btn"]
        /\ NextWindow(entryStart, entryEnd, totalEntries)[1] = entryEnd + 1
        /\ NextWindow(entryStart, entryEnd, totalEntries)[2] > entryEnd


\* The last navigation step started from a window inside the dataset as
\* the application knows it.
NavFromValidWindow ==
    /\ lastNav.kind \in {"next", "last"}
    /\ 1 <= lastNav.start
    /\ lastNav.start <= lastNav.end
    /\ lastNav.end <= lastNav.total

\* C29: a Next or Last step from a window with 1 <= start <= end <=
\* total_entries either leaves the window as it is, at the boundary of the
\* dataset, or produces a window inside 1..total_entries that is adjacent to
\* the previous one (Next: start' = end + 1, Last: end' = start - 1) and no
\* larger than it.
NavigationKeepsRangeValid ==
    NavFromValidWindow =>
        \/ /\ lastNav.newStart = lastNav.start
           /\ lastNav.newEnd = lastNav.end
           /\ \/ lastNav.kind = "next" /\ lastNav.end = lastNav.total
              \/ lastNav.kind = "last" /\ lastNav.start = 1
        \/ /\ 1 <= lastNav.newStart
           /\ lastNav.newStart <= lastNav.newEnd
           /\ lastNav.newEnd <= lastNav.total
           /\ lastNav.kind = "next" => lastNav.newStart = lastNav.end + 1
           /\ lastNav.kind = "last" => lastNav.newEnd = lastNav.start - 1
           /\ lastNav.newEnd - lastNav.newStart <= lastNav.end - lastNav.start

\* C29 witness: a Next step whose window is cut short by the end of the
\* dataset.
NextWindowCutAtTotal ==
    /\ NavFromValidWindow
    /\ lastNav.kind = "next"
    /\ lastNav.newStart = lastNav.end + 1
    /\ lastNav.newEnd = lastNav.total
    /\ lastNav.newEnd - lastNav.newStart < lastNav.end - lastNav.start

\* A Last step cut short by entry 1, and a step refused at a boundary.
LastWindowCutAtOne ==
    /\ NavFromValidWindow
    /\ lastNav.kind = "last"
    /\ lastNav.newStart = 1
    /\ lastNav.newEnd - lastNav.newStart < lastNav.end - lastNav.start

NavRefusedAtBoundary ==
    /\ NavFromValidWindow
    /\ lastNav.newStart = lastNav.start
    /\ lastNav.newEnd = lastNav.end


\* The prefix createShortenedLabel removed from a node's label: the longest
\* candidate that leaves the node two parts, as parts; empty when the label
\* was kept.
RemovedPrefix(node) ==
    LET parts == splitPath(node.label)
        qualifying == { k \in CandidateLengths(node) : Len(parts) > k + 1 }
    IN  IF qualifying = {} THEN <<>> ELSE SubSeq(parts, 1, SetMax(qualifying))

\* C30: two registry nodes with different original labels never have the
\* same shortened label in the mapping of createRegistryPathMapping.
ShortenedLabelsUnambiguous ==
    \A n1, n2 \in Range(regNodes) :
        ( /\ n1.id \in DOMAIN registryPathMapping
          /\ n2.id \in DOMAIN registryPathMapping
          /\ n1.label # n2.label )
        => registryPathMapping[n1.id].shortened # registryPathMapping[n2.id].shortened

\* What does hold: labels from which the same prefix was removed, or none,
\* stay apart.
SamePrefixLabelsApart ==
    \A n1, n2 \in Range(regNodes) :
        ( /\ n1.id \in DOMAIN registryPathMapping
          /\ n2.id \in DOMAIN registryPathMapping
          /\ n1.label # n2.label
          /\ RemovedPrefix(n1) = RemovedPrefix(n2) )
        => registryPathMapping[n1.id].shortened # registryPathMapping[n2.id].shortened

=============================================================================
